---- MODULE Spec2Model ----
(***************************************************************************)
(* A model of zipbul/code-ledger.                                          *)
(*                                                                         *)
(*   Spec             the IndexCoordinator: lock, debounce buffer,         *)
(*                    finalizer                                            *)
(*   FanoutSpec       the coordinator driven by the watcher, with           *)
(*                    subscribers coming and going                         *)
(*   WatchSpec        the coordinator under incrementalIndex() and watcher  *)
(*                    events, package.json events and the boundaries       *)
(*                    refresh they start included                          *)
(*   ShutdownSpec     the same as Spec, with a shutdown() call              *)
(*   OwnerSpec        watcher ownership across processes and the           *)
(*                    CodeLedger facade's open / heartbeat / healthcheck / *)
(*                    close; timers fire no earlier than due               *)
(*   OwnerTimelySpec  the same, with every timer firing when it is due     *)
(*   IndexSpec        the persisted index under fullIndex and              *)
(*                    incrementalIndex over a changing source tree and     *)
(*                    changing project boundaries                          *)
(*   FaultSpec        the persisted index when the symbol or relation      *)
(*                    indexer of a changed file throws                     *)
(*   LedgerSpec       one CodeLedger instance step by step: open(), the    *)
(*                    reader's promotion, close(), onIndexed(), facade     *)
(*                    calls                                                *)
(*   StoreSpec        the DbConnection: open() with its corruption         *)
(*                    recovery, transaction(fn) with nesting               *)
(*   RelationSpec     the RelationRepository: replaceFileRelations and     *)
(*                    getOutgoing                                          *)
(*   GraphSpec        the DependencyGraph: getTransitiveDependents over    *)
(*                    every graph on three files                           *)
(*   ExplicitSpec     the coordinator under watcher events and             *)
(*                    incrementalIndex(events) calls                       *)
(*   RefreshSpec      the coordinator with the boundaries refresh of       *)
(*                    package.json events, promise by promise              *)
(*   RelationFaultSpec  replaceFileRelations statement by statement, with  *)
(*                    INSERTs that throw                                   *)
(*   IdleSpec         the coordinator under fairness of the timer, the     *)
(*                    runs and their finally blocks                        *)
(*   ResultSpec       the IndexResult of a run, for ordered batches with   *)
(*                    repetitions                                          *)
(*                                                                         *)
(* The parts share no state; each specification leaves the other parts'    *)
(* variables untouched.  watcher/ownership.ts, indexer/file-indexer.ts and *)
(* search/dependency-graph.ts are modelled from their algorithms in        *)
(* PLAN.md (9.3, 13.1 and 14.3).                                           *)
(***************************************************************************)
EXTENDS Integers, Sequences, FiniteSets, TLC

VARIABLES
  \* ---- IndexCoordinator (index-coordinator.ts) ----
  indexingLock,      \* private indexingLock = false
  pendingEvents,     \* private pendingEvents: FileChangeEvent[]
  debounceTimer,     \* TRUE when the debounce timer handle is not null
  currentIndexing,   \* the run whose promise is stored, NoRun for null
  pendingFullIndex,  \* private _pendingFullIndex
  runs,              \* every run started so far (a _doIndex invocation each)
  delivered,         \* history: every event given to handleWatcherEvent
  calls,             \* history: every fullIndex()/incrementalIndex() call
  epoch,             \* history: number of times the debounce timer was armed
  winBusy,           \* history: debounce windows during which the lock was held
  winFired,          \* history: debounce windows whose timer has fired
  callbacks,         \* private callbacks = new Set(), in insertion order
  fanout,            \* the latest _fireCallbacks: its run, the callbacks
                     \* invoked, and those invoked by the fanout before it
  boundariesRefresh, \* TRUE when a boundaries-refresh promise is stored
  refreshWaiter,     \* the run awaiting the boundaries refresh, NoRun for none
  shutdown,          \* the shutdown() call: its position and what it awaits
  \* ---- watcher ownership and the CodeLedger facade ----
  now,               \* wall clock, in ms
  ownerRow,          \* the watcher_owner row (id = 1), NoRow when absent
  dbLock,            \* the process holding the database write lock, 0 for none
  proc,              \* per process: the CodeLedger instance and its timers
  \* ---- the source tree and the persisted index ----
  disk,              \* path -> the file on disk, NoFile when absent
  dclock,            \* number of writes to the tree so far (the mtime source)
  boundaries,        \* opts.boundaries: the projects of the workspace
  watched,           \* the watcher's events since the last drained batch
  dbFiles,           \* files table: (project, path) -> row, NoRec when absent
  dbSymbols,         \* symbols table: a set of rows
  dbRelations,       \* relations table: a set of rows
  indexLog,          \* history: every indexing run, with the tree it saw
  \* ---- one CodeLedger instance, step by step (code-ledger.ts) ----
  openPc,            \* the position of CodeLedger.open()
  store,             \* the DbConnection: "unopened", "open" or "closed"
  role,              \* the role open() acquired, "none" before
  closed,            \* private _closed = false
  coordinator,       \* TRUE when this.coordinator is not null
  watcher,           \* TRUE when this.watcher is not null
  timer,             \* this._timer: "null", "heartbeat" or "healthcheck"
  signalHandlers,    \* TRUE while the process handlers are registered
  owned,             \* TRUE while the watcher_owner row carries this pid
  closePc,           \* the position of the close() call that tears down
  promotePc,         \* the position of the healthcheck callback that promotes
  teardown,          \* history: the teardown steps close() has performed
  closeCalls,        \* history: the close() calls made, by their origin
  onIndexedCallbacks,\* private _onIndexedCallbacks = new Set()
  coordCallbacks,    \* the callbacks set of this.coordinator
  handles,           \* per callback: the unsubscribe function it was given
  unsubscribed,      \* history: callbacks whose unsubscribe function was called
  ledgerFanout,      \* history: the callbacks the latest completed run invoked
  facadeLog,         \* history: the latest facade call and how it ended
  \* ---- the DbConnection (store/connection.ts) ----
  client,            \* TRUE when this.client is not null
  openCall,          \* the open() call: its executions and file deletions
  tableRows,         \* the rows of the database as the connection sees them
  txDepth,           \* private txDepth = 0
  savepoints,        \* the database at BEGIN and at each open SAVEPOINT
  txResult,          \* history: the latest transaction(fn) call that ended
  \* ---- the RelationRepository (store/repositories/relation.repository.ts) ----
  relTable,          \* relations table: a set of rows
  lastReplace,       \* history: the latest replaceFileRelations call and what
                     \* getOutgoing answers right after it
  \* ---- the DependencyGraph (search/dependency-graph.ts) ----
  importEdges,       \* the imports edges build() loaded, as <<src, dst>>
  dependentsQuery,   \* the latest getTransitiveDependents call and its result
  \* ---- the boundaries refresh of the IndexCoordinator, promise by promise ----
  discoveries,       \* per delivered event: the discoverProjects() call it made
  optsBoundaries,    \* this.opts.boundaries: 0 as constructed, k once the
                     \* .then() of the discovery of event k has run
  refreshPromise,    \* the promise this.boundariesRefresh holds, 0 for null
  awaiting,          \* the promise the waiting run awaits, 0 for none
  refreshLog,        \* history: each resumption after `await boundariesRefresh`
  \* ---- the IndexResult of a run (index-coordinator.ts, _doIndex) ----
  batch,             \* the events buffered for the next run, in order
  lastResult         \* the latest run: its input and the IndexResult it returned

coordVars == <<indexingLock, pendingEvents, debounceTimer, currentIndexing,
               pendingFullIndex, runs, delivered, calls, epoch, winBusy, winFired,
               callbacks, fanout, boundariesRefresh, refreshWaiter, shutdown>>

ownVars == <<now, ownerRow, dbLock, proc>>

indexVars == <<disk, dclock, boundaries, watched, dbFiles, dbSymbols, dbRelations,
               indexLog>>

\* the CodeLedger instance of LedgerSpec
ledgerVars == <<openPc, store, role, closed, coordinator, watcher, timer,
                signalHandlers, owned, closePc, promotePc, teardown, closeCalls,
                onIndexedCallbacks, coordCallbacks, handles, unsubscribed,
                ledgerFanout, facadeLog>>

\* the DbConnection of StoreSpec
storeVars == <<client, openCall, tableRows, txDepth, savepoints, txResult,
               relTable, lastReplace>>

\* the DependencyGraph of GraphSpec
graphVars == <<importEdges, dependentsQuery>>

\* the boundaries refresh of RefreshSpec
refreshVars == <<discoveries, optsBoundaries, refreshPromise, awaiting, refreshLog>>

\* the batches and results of ResultSpec
resultVars == <<batch, lastResult>>

vars == <<coordVars, ownVars, indexVars, ledgerVars, storeVars, graphVars,
          refreshVars, resultVars>>

\* ---- bounds ----
MaxCalls == 1      \* fullIndex()/incrementalIndex() calls made by the caller
MaxEvents == 2     \* events delivered by the watcher

NoRun == 0

\* shutdown() has not been called
NoShutdown == [st |-> "none", awaits |-> NoRun, calls |-> 0, delivered |-> 0]

EventKinds == {"src", "tsconfig"}

\* the same with package.json events
AllEventKinds == EventKinds \cup {"package"}

\* a handler that takes every configuration file for a tsconfig.json
isConfigFile(kind) == kind \in {"tsconfig", "package"}

\* event.filePath.endsWith('tsconfig.json')
isTsconfig(kind) == kind = "tsconfig"

\* ------------------------------------------------------------------------
\* helpers
InSeq(e, s) == \E i \in 1..Len(s) : s[i] = e

Running(rs) == {r \in DOMAIN rs : rs[r].st # "done"}

\* ------------------------------------------------------------------------
\* IndexCoordinator._startIndex(events, useTransaction)
\* The arguments lock, cur, pf, rs are the fields as they are when the method
\* is entered; the result gives the fields afterwards and the returned promise.
startIndexNoGate(lock, cur, pf, rs, pend, events, explicit, useTransaction, by) ==
  [lock |-> TRUE, cur |-> Len(rs) + 1, pf |-> pf,
   rs |-> Append(rs, [mode |-> IF useTransaction THEN "full" ELSE "incr",
                      explicit |-> explicit, events |-> events,
                      st |-> "running", indexed |-> "none",
                      outcome |-> "none",
                      by |-> by, held |-> pend]),
   ret |-> Len(rs) + 1, started |-> TRUE]

startIndex(lock, cur, pf, rs, pend, events, explicit, useTransaction, by) ==
  IF lock
    THEN [lock |-> lock, cur |-> cur, pf |-> (pf \/ useTransaction), rs |-> rs,
          ret |-> cur, started |-> FALSE]
    ELSE [lock |-> TRUE, cur |-> Len(rs) + 1, pf |-> pf,
          rs |-> Append(rs, [mode |-> IF useTransaction THEN "full" ELSE "incr",
                             explicit |-> explicit, events |-> events,
                             st |-> "running", indexed |-> "none",
                      outcome |-> "none",
                             by |-> by, held |-> pend]),
          ret |-> Len(rs) + 1, started |-> TRUE]

\* The .finally() block of _startIndex. outcome is how the run's promise
\* settled; the block runs either way.
finalizeOnSuccessOnly(outcome, lock, cur, pf, rs, pend) ==
  IF outcome = "rejected"
    THEN [lock |-> lock, cur |-> cur, pf |-> pf, rs |-> rs, pend |-> pend]
    ELSE IF pf
      THEN LET s == startIndex(FALSE, NoRun, FALSE, rs, pend, <<>>, FALSE, TRUE, "fin")
           IN [lock |-> s.lock, cur |-> s.cur, pf |-> s.pf, rs |-> s.rs, pend |-> pend]
      ELSE IF Len(pend) > 0
        THEN LET s == startIndex(FALSE, NoRun, pf, rs, <<>>, pend, TRUE, FALSE, "fin")
             IN [lock |-> s.lock, cur |-> s.cur, pf |-> s.pf, rs |-> s.rs, pend |-> <<>>]
        ELSE [lock |-> FALSE, cur |-> NoRun, pf |-> pf, rs |-> rs, pend |-> pend]

finalizeEventsFirst(outcome, lock, cur, pf, rs, pend) ==
  IF Len(pend) > 0
    THEN LET s == startIndex(FALSE, NoRun, pf, rs, <<>>, pend, TRUE, FALSE, "fin")
         IN [lock |-> s.lock, cur |-> s.cur, pf |-> s.pf, rs |-> s.rs, pend |-> <<>>]
    ELSE IF pf
      THEN LET s == startIndex(FALSE, NoRun, FALSE, rs, pend, <<>>, FALSE, TRUE, "fin")
           IN [lock |-> s.lock, cur |-> s.cur, pf |-> s.pf, rs |-> s.rs, pend |-> pend]
      ELSE [lock |-> FALSE, cur |-> NoRun, pf |-> pf, rs |-> rs, pend |-> pend]

\* a finally block that releases the lock and starts nothing
finalizeNoDrain(outcome, lock, cur, pf, rs, pend) ==
  [lock |-> FALSE, cur |-> NoRun, pf |-> pf, rs |-> rs, pend |-> pend]

finalize(outcome, lock, cur, pf, rs, pend) ==
  IF pf
    THEN LET s == startIndex(FALSE, NoRun, FALSE, rs, pend, <<>>, FALSE, TRUE, "fin")
         IN [lock |-> s.lock, cur |-> s.cur, pf |-> s.pf, rs |-> s.rs, pend |-> pend]
    ELSE IF Len(pend) > 0
      THEN LET s == startIndex(FALSE, NoRun, pf, rs, <<>>, pend, TRUE, FALSE, "fin")
           IN [lock |-> s.lock, cur |-> s.cur, pf |-> s.pf, rs |-> s.rs, pend |-> <<>>]
      ELSE [lock |-> FALSE, cur |-> NoRun, pf |-> pf, rs |-> rs, pend |-> pend]

\* IndexCoordinator._flushPending(): what the debounce timer's callback does
\* after it has cleared the handle.
flushPendingFirstOnly(lock, cur, pf, rs, pend) ==
  IF lock
    THEN [lock |-> lock, cur |-> cur, pf |-> pf, rs |-> rs, pend |-> pend]
    ELSE IF Len(pend) > 0
      THEN LET s == startIndex(lock, cur, pf, rs, <<>>, <<Head(pend)>>, TRUE, FALSE, "timer")
           IN [lock |-> s.lock, cur |-> s.cur, pf |-> s.pf, rs |-> s.rs, pend |-> Tail(pend)]
      ELSE [lock |-> lock, cur |-> cur, pf |-> pf, rs |-> rs, pend |-> pend]

flushPendingNoLockCheck(lock, cur, pf, rs, pend) ==
  IF Len(pend) > 0
    THEN LET s == startIndex(lock, cur, pf, rs, <<>>, pend, TRUE, FALSE, "timer")
         IN [lock |-> s.lock, cur |-> s.cur, pf |-> s.pf, rs |-> s.rs, pend |-> <<>>]
    ELSE [lock |-> lock, cur |-> cur, pf |-> pf, rs |-> rs, pend |-> pend]

flushPending(lock, cur, pf, rs, pend) ==
  IF lock
    THEN [lock |-> lock, cur |-> cur, pf |-> pf, rs |-> rs, pend |-> pend]
    ELSE IF Len(pend) > 0
      THEN LET s == startIndex(lock, cur, pf, rs, <<>>, pend, TRUE, FALSE, "timer")
           IN [lock |-> s.lock, cur |-> s.cur, pf |-> s.pf, rs |-> s.rs, pend |-> <<>>]
      ELSE [lock |-> lock, cur |-> cur, pf |-> pf, rs |-> rs, pend |-> pend]

\* A debounce window is busy when the lock is held at some moment while its
\* timer is armed.
BusyAfter == winBusy' = IF debounceTimer' /\ indexingLock'
                          THEN winBusy \cup {epoch'} ELSE winBusy

\* _doIndex, entered by a run that starts while a boundaries refresh is
\* stored, awaits it before anything else
WaiterAfter == refreshWaiter' = IF Len(runs') > Len(runs) /\ boundariesRefresh
                                  THEN Len(runs') ELSE refreshWaiter

Range(s) == {s[i] : i \in DOMAIN s}

\* subscribers 1 and 2; whenever subscriber 1 is invoked it throws
Subscribers == {1, 2}

Throwing == {1}

\* the position of the first throwing subscriber, 0 when none throws
FirstThrow(cbs) ==
  IF \E i \in DOMAIN cbs : cbs[i] \in Throwing
  THEN CHOOSE i \in DOMAIN cbs :
         cbs[i] \in Throwing /\ \A j \in 1..(i - 1) : cbs[j] \notin Throwing
  ELSE 0

\* a fanout that runs through the set backwards
fireCallbacksReversed(cbs) ==
  [fired |-> [i \in DOMAIN cbs |-> cbs[Len(cbs) + 1 - i]], rejects |-> FALSE]

\* a fanout without the try/catch: the first exception ends the loop and
\* rejects the promise of the .then() it runs in
fireCallbacksNoCatch(cbs) ==
  IF FirstThrow(cbs) = 0
  THEN [fired |-> cbs, rejects |-> FALSE]
  ELSE [fired |-> SubSeq(cbs, 1, FirstThrow(cbs)), rejects |-> TRUE]

\* _fireCallbacks(result): every callback of the set, in insertion order, each
\* in its own try/catch
fireCallbacks(cbs) == [fired |-> cbs, rejects |-> FALSE]

\* ------------------------------------------------------------------------
\* actions of the coordinator

\* fullIndex(): _startIndex(undefined, true)
FullIndex ==
  /\ Len(calls) < MaxCalls
  /\ LET s == startIndex(indexingLock, currentIndexing, pendingFullIndex, runs,
                         pendingEvents, <<>>, FALSE, TRUE, "call")
     IN /\ indexingLock' = s.lock
        /\ currentIndexing' = s.cur
        /\ pendingFullIndex' = s.pf
        /\ runs' = s.rs
        /\ calls' = Append(calls, [op |-> "fullIndex",
                                   during |-> IF indexingLock THEN currentIndexing ELSE NoRun,
                                   ret |-> s.ret, started |-> s.started, pfAfter |-> s.pf])
  /\ UNCHANGED <<pendingEvents, debounceTimer, delivered, epoch, winFired>>
  /\ BusyAfter
  /\ WaiterAfter
  /\ UNCHANGED <<callbacks, fanout, boundariesRefresh, shutdown>>
  /\ UNCHANGED <<ownVars, indexVars, ledgerVars, storeVars, graphVars, refreshVars,
                 resultVars>>

\* incrementalIndex(events?): _startIndex(events, false); without an event
\* list the run asks the change detector.
IncrementalIndex ==
  /\ Len(calls) < MaxCalls
  /\ LET s == startIndex(indexingLock, currentIndexing, pendingFullIndex, runs,
                         pendingEvents, <<>>, FALSE, FALSE, "call")
     IN /\ indexingLock' = s.lock
        /\ currentIndexing' = s.cur
        /\ pendingFullIndex' = s.pf
        /\ runs' = s.rs
        /\ calls' = Append(calls, [op |-> "incrementalIndex",
                                   during |-> IF indexingLock THEN currentIndexing ELSE NoRun,
                                   ret |-> s.ret, started |-> s.started, pfAfter |-> s.pf])
  /\ UNCHANGED <<pendingEvents, debounceTimer, delivered, epoch, winFired>>
  /\ BusyAfter
  /\ WaiterAfter
  /\ UNCHANGED <<callbacks, fanout, boundariesRefresh, shutdown>>
  /\ UNCHANGED <<ownVars, indexVars, ledgerVars, storeVars, graphVars, refreshVars,
                 resultVars>>

\* handleWatcherEvent(event)
handleWatcherEvent(kind) ==
  /\ Len(delivered) < MaxEvents
  /\ LET during == IF indexingLock THEN currentIndexing ELSE NoRun
         id == Len(delivered) + 1
     IN IF isTsconfig(kind)
          THEN \* reload the paths, this.fullIndex(), return
            LET s == startIndex(indexingLock, currentIndexing, pendingFullIndex, runs,
                                pendingEvents, <<>>, FALSE, TRUE, "tsconfig")
            IN /\ indexingLock' = s.lock
               /\ currentIndexing' = s.cur
               /\ pendingFullIndex' = s.pf
               /\ runs' = s.rs
               /\ delivered' = Append(delivered, [id |-> id, kind |-> kind,
                                                  win |-> 0, during |-> during])
               /\ UNCHANGED <<pendingEvents, debounceTimer, epoch>>
          ELSE
            LET w == IF debounceTimer THEN epoch ELSE epoch + 1
                ev == [id |-> id, kind |-> kind, win |-> w, during |-> during]
            IN /\ pendingEvents' = Append(pendingEvents, ev)
               /\ delivered' = Append(delivered, ev)
               /\ debounceTimer' = TRUE
               /\ epoch' = w
               /\ UNCHANGED <<indexingLock, currentIndexing, pendingFullIndex, runs>>
  /\ UNCHANGED <<calls, winFired>>
  /\ BusyAfter
  /\ WaiterAfter
  /\ boundariesRefresh' = (boundariesRefresh \/ kind = "package")
  /\ UNCHANGED <<callbacks, fanout, shutdown>>

\* handleWatcherEvent(event), the promise of the refresh left aside
HandleWatcherEvent(kind) ==
  /\ handleWatcherEvent(kind)
  /\ UNCHANGED <<ownVars, indexVars, ledgerVars, storeVars, graphVars, refreshVars,
                 resultVars>>

\* the debounce timer fires: debounceTimer = null; _flushPending()
debounceTimerFires ==
  /\ debounceTimer
  /\ debounceTimer' = FALSE
  /\ winFired' = winFired \cup {epoch}
  /\ LET f == flushPending(indexingLock, currentIndexing, pendingFullIndex, runs, pendingEvents)
     IN /\ indexingLock' = f.lock
        /\ currentIndexing' = f.cur
        /\ pendingFullIndex' = f.pf
        /\ runs' = f.rs
        /\ pendingEvents' = f.pend
  /\ UNCHANGED <<delivered, calls, epoch>>
  /\ BusyAfter
  /\ WaiterAfter
  /\ UNCHANGED <<callbacks, fanout, boundariesRefresh, shutdown>>

\* the debounce timer fires, the promise of the refresh left aside
TimerFire ==
  /\ debounceTimerFires
  /\ UNCHANGED <<ownVars, indexVars, ledgerVars, storeVars, graphVars, refreshVars,
                 resultVars>>

\* _doIndex settles: resolved (then the callbacks are fired inside the .then)
\* or rejected (the .then is skipped)
RunSettle(r, outcome) ==
  /\ r \in DOMAIN runs
  /\ runs[r].st = "running"
  /\ refreshWaiter # r
  /\ LET f == IF outcome = "resolved" THEN fireCallbacks(callbacks)
              ELSE [fired |-> <<>>, rejects |-> FALSE]
     IN runs' = [runs EXCEPT ![r].st = "settled", ![r].indexed = outcome,
                             ![r].outcome = IF f.rejects THEN "rejected" ELSE outcome]
        /\ fanout' = IF outcome = "resolved"
                        THEN [run |-> r, fired |-> f.fired, before |-> fanout.fired]
                        ELSE fanout
  /\ UNCHANGED <<indexingLock, pendingEvents, debounceTimer, currentIndexing,
                 pendingFullIndex, delivered, calls, epoch, winBusy, winFired>>
  /\ UNCHANGED <<callbacks, boundariesRefresh, refreshWaiter, shutdown>>
  /\ UNCHANGED <<ownVars, indexVars, ledgerVars, storeVars, graphVars, refreshVars,
                 resultVars>>

\* the .finally() block of the settled run
runFinally(r) ==
  /\ r \in DOMAIN runs
  /\ runs[r].st = "settled"
  /\ LET f == finalize(runs[r].outcome, indexingLock, currentIndexing, pendingFullIndex,
                       [runs EXCEPT ![r].st = "done"], pendingEvents)
     IN /\ indexingLock' = f.lock
        /\ currentIndexing' = f.cur
        /\ pendingFullIndex' = f.pf
        /\ runs' = f.rs
        /\ pendingEvents' = f.pend
  /\ UNCHANGED <<debounceTimer, delivered, calls, epoch, winFired>>
  /\ BusyAfter
  /\ WaiterAfter
  /\ UNCHANGED <<callbacks, fanout, boundariesRefresh, shutdown>>

\* the .finally() block, the promise of the refresh left aside
Finalize(r) ==
  /\ runFinally(r)
  /\ UNCHANGED <<ownVars, indexVars, ledgerVars, storeVars, graphVars, refreshVars,
                 resultVars>>

\* ------------------------------------------------------------------------
\* watcher ownership: the watcher_owner row and the processes that share it
\* ---- bounds ----
MaxTicks == 6      \* clock steps of HEARTBEAT_INTERVAL_MS each
MaxCallbacks == 1  \* distinct onIndexed callbacks

HEARTBEAT_INTERVAL_MS == 30000
HEALTHCHECK_INTERVAL_MS == 60000
HEARTBEAT_STALE_MS == 90000

\* the processes that open the same project: an owner and a contender
Procs == {1, 2}

Callbacks == 1..MaxCallbacks

NoRow == [pid |-> 0, heartbeatAt |-> 0]

\* a process that has not called CodeLedger.open yet
NewProc ==
  [alive |-> TRUE, pc |-> "init", cont |-> "open", acquired |-> "none",
   seen |-> NoRow, peers |-> {}, timer |-> "none", due |-> 0,
   coordinator |-> FALSE, watching |-> FALSE, cbs |-> {}, coordCbs |-> {},
   fullIndexCalls |-> 0, diedAt |-> 0]

\* isProcessAlive(pid): signal 0 reaches the process
isProcessAlive(pid) == pid \in Procs /\ proc[pid].alive

\* BEGIN IMMEDIATE: the write lock is taken when the transaction begins, so
\* the transaction starts only when no other connection holds it
beginDeferred(lock) == TRUE

beginImmediate(lock) == lock = 0

\* acquireWatcherRole(db, pid), steps 2-4, on the row read in the transaction
acquireWatcherRole(row, pid, t) ==
  IF row = NoRow
  THEN [role |-> "owner", write |-> TRUE, row |-> [pid |-> pid, heartbeatAt |-> t]]
  ELSE IF isProcessAlive(row.pid) /\ t - row.heartbeatAt < HEARTBEAT_STALE_MS
       THEN [role |-> "reader", write |-> FALSE, row |-> row]
       ELSE [role |-> "owner", write |-> TRUE, row |-> [pid |-> pid, heartbeatAt |-> t]]

\* releaseWatcherRole(db, pid): DELETE ... WHERE id = 1 AND pid = ?
releaseWatcherRole(row, pid) == IF row.pid = pid THEN NoRow ELSE row

\* updateHeartbeat(db, pid): UPDATE ... WHERE id = 1 AND pid = ?
updateHeartbeat(row, pid, t) ==
  IF row.pid = pid THEN [row EXCEPT !.heartbeatAt = t] ELSE row

\* the healthcheck's promotion: callbacks handed to the new coordinator
forwardNone(cbs) == {}

forwardCallbacks(cbs) == cbs

\* ------------------------------------------------------------------------
\* the source tree and the persisted index
\* ---- bounds ----
MaxWrites == 2     \* changes applied to the source tree
MaxRuns == 2       \* indexing runs

\* the workspace: the root package and one nested package, pkg/
Projects == {"root", "pkg"}

Paths == {"a.ts", "b.ts", "c.ts", "pkg/d.ts"}

InPkg == {"pkg/d.ts"}

\* discoverProjects: the root package.json is always there, pkg/package.json
\* comes and goes
BoundarySets == {{"root"}, {"root", "pkg"}}

\* file contents: text 1 declares f; text 2 declares g and imports f from
\* another file; text 3 does not parse
Texts == {1, 2, 3}

BadText == 3

\* the contents written while the index is open
Written == {1, BadText}

NoFile == [text |-> 0, mtimeMs |-> 0]

NoRec == [contentHash |-> 0, mtimeMs |-> 0, size |-> 0]

Keys == Projects \X Paths

Other(path) == IF path = "a.ts" THEN "b.ts" ELSE "a.ts"

\* resolveFileProject: the deepest boundary whose directory holds the path,
\* the root project otherwise
resolveFileProject(path, bs) ==
  IF path \in InPkg /\ "pkg" \in bs THEN "pkg" ELSE "root"

hashString(text) == (text * 7) % 5

sizeOf(text) == 10 * text

\* parseSource throws on a text that does not parse
parses(text) == text # BadText

extractSymbols(text) == IF text = 1 THEN {"f"} ELSE {"g"}

extractRelations(project, path, text) ==
  IF text = 2
  THEN {[project |-> project, srcFilePath |-> path, dstFilePath |-> Other(path),
         dstSymbolName |-> "f"]}
  ELSE {}

\* buildRow: fingerprint = hashString(name | kind | signature)
buildRow(name, project, filePath, contentHash) ==
  [project |-> project, filePath |-> filePath, name |-> name,
   fingerprint |-> <<name, "function">>, contentHash |-> contentHash]

Scanned(dsk) == {path \in Paths : dsk[path] # NoFile}

\* _doIndex: existingMap, the file records of every current boundary keyed by
\* path; a later boundary overwrites an earlier one (the nested package is
\* listed after the root)
existingMap(db, bs) ==
  [path \in Paths |->
     IF "pkg" \in bs /\ db.files[<<"pkg", path>>] # NoRec
     THEN db.files[<<"pkg", path>>]
     ELSE IF "root" \in bs THEN db.files[<<"root", path>>] ELSE NoRec]

\* detectChanges: a scanned file is changed when it has no record, or when
\* mtime or size differ and the content hash differs too; a record without a
\* scanned file is deleted
detectChanges(dsk, existing) ==
  [changed |-> {path \in Scanned(dsk) :
                  \/ existing[path] = NoRec
                  \/ /\ \/ dsk[path].mtimeMs # existing[path].mtimeMs
                        \/ sizeOf(dsk[path].text) # existing[path].size
                     /\ hashString(dsk[path].text) # existing[path].contentHash},
   deleted |-> {path \in Paths : existing[path] # NoRec /\ path \notin Scanned(dsk)}]

\* a deletion that also removes the relations pointing at the file
deleteFileAndIncoming(db, project, path) ==
  [files |-> [db.files EXCEPT ![<<project, path>>] = NoRec],
   symbols |-> {s \in db.symbols : ~(s.project = project /\ s.filePath = path)},
   relations |-> {r \in db.relations :
                    ~(r.project = project /\
                        (r.srcFilePath = path \/ r.dstFilePath = path))}]

\* FileRepository.deleteFile, with the ON DELETE CASCADE of the symbols of the
\* file and of the relations whose source is the file
deleteFile(db, project, path) ==
  [files |-> [db.files EXCEPT ![<<project, path>>] = NoRec],
   symbols |-> {s \in db.symbols : ~(s.project = project /\ s.filePath = path)},
   relations |-> {r \in db.relations :
                    ~(r.project = project /\ r.srcFilePath = path)}]

\* the reading and parsing of a changed file throws when the file is gone or
\* does not parse
throws(dsk, path) == dsk[path] = NoFile \/ ~parses(dsk[path].text)

\* _processFile / the body of the full-index loop: upsert the file row, replace
\* the file's symbols, replace the file's outgoing relations
processFile(db, dsk, bs, path) ==
  LET text == dsk[path].text
      contentHash == hashString(text)
      project == resolveFileProject(path, bs)
  IN [files |-> [db.files EXCEPT ![<<project, path>>] =
                   [contentHash |-> contentHash, mtimeMs |-> dsk[path].mtimeMs,
                    size |-> sizeOf(text)]],
      symbols |-> {s \in db.symbols : ~(s.project = project /\ s.filePath = path)}
                    \cup {buildRow(n, project, path, contentHash) :
                            n \in extractSymbols(text)},
      relations |-> {r \in db.relations :
                       ~(r.project = project /\ r.srcFilePath = path)}
                      \cup extractRelations(project, path, text)]

RECURSIVE deleteFiles(_, _)
deleteFiles(db, keys) ==
  IF keys = {} THEN db
  ELSE LET k == CHOOSE x \in keys : TRUE
       IN deleteFiles(deleteFile(db, k[1], k[2]), keys \ {k})

RECURSIVE processFiles(_, _, _, _)
processFiles(db, dsk, bs, paths) ==
  IF paths = {} THEN db
  ELSE LET path == CHOOSE x \in paths : TRUE
       IN processFiles(processFile(db, dsk, bs, path), dsk, bs, paths \ {path})

\* processDeleted: each deleted path loses its rows in the project it resolves to
processDeleted(db, bs, deleted) ==
  deleteFiles(db, {<<resolveFileProject(path, bs), path>> : path \in deleted})

\* processChanged without its try/catch: the first failure ends the run
processChangedNoCatch(db, dsk, bs, changed) ==
  LET failing == {path \in changed : throws(dsk, path)}
  IN [db |-> IF failing = {} THEN processFiles(db, dsk, bs, changed) ELSE db,
      failedFiles |-> {}, threw |-> failing # {}]

\* processChanged: a file whose processing throws goes to failedFiles, the
\* loop goes on with the next file
processChanged(db, dsk, bs, changed) ==
  LET failing == {path \in changed : throws(dsk, path)}
  IN [db |-> processFiles(db, dsk, bs, changed \ failing),
      failedFiles |-> failing, threw |-> FALSE]

\* the full-index transaction body: delete the file rows of every current
\* boundary, then index every changed file
fullIndexBody(db, dsk, bs, changed) ==
  LET failing == {path \in changed : throws(dsk, path)}
      emptied == deleteFiles(db, {k \in Keys : k[1] \in bs /\ db.files[k] # NoRec})
  IN [db |-> processFiles(emptied, dsk, bs, changed \ failing),
      failedFiles |-> {}, threw |-> failing # {}]

\* a transaction that commits what was written before the throw
transactionNoRollback(before, body) == body

\* DbConnection.transaction (outermost): commit when the body returns, roll
\* back and rethrow when it throws
transaction(before, body) ==
  IF body.threw THEN [body EXCEPT !.db = before] ELSE body

\* a retarget that updates no row
retargetNothing(relations, project, oldFile, oldSymbol, newFile, newSymbol) ==
  relations

\* RelationRepository.retargetRelations
retargetRelations(relations, project, oldFile, oldSymbol, newFile, newSymbol) ==
  {IF r.project = project /\ r.dstFilePath = oldFile /\ r.dstSymbolName = oldSymbol
   THEN [r EXCEPT !.dstFilePath = newFile, !.dstSymbolName = newSymbol]
   ELSE r : r \in relations}

\* fingerprint: string | null
NoFingerprint == <<>>

\* SymbolRepository.getByFingerprint
getByFingerprint(symbols, project, fingerprint) ==
  {n \in symbols : n.project = project /\ n.fingerprint = fingerprint}

\* a move detector that takes any match
isMoveAnyMatch(matches) == matches # {}

\* matches.length === 1
isMove(matches) == Cardinality(matches) = 1

\* move detection: each snapshotted symbol whose fingerprint has exactly one
\* match after the changeset was applied is retargeted to that match; st is
\* the database and the retargetRelations calls made so far
RECURSIVE retargetMoved(_, _, _)
retargetMoved(st, syms, bs) ==
  IF syms = {} THEN st
  ELSE LET sym == CHOOSE x \in syms : TRUE
           oldProject == resolveFileProject(sym.filePath, bs)
           matches == getByFingerprint(st.db.symbols, oldProject, sym.fingerprint)
           newSym == CHOOSE n \in matches : TRUE
       IN retargetMoved(
            IF sym.fingerprint # NoFingerprint /\ isMove(matches)
            THEN [db |-> [st.db EXCEPT !.relations =
                            retargetRelations(@, oldProject, sym.filePath, sym.name,
                                              newSym.filePath, newSym.name)],
                  retargets |-> st.retargets \cup
                                  {[project |-> oldProject, oldFile |-> sym.filePath,
                                    oldSymbol |-> sym.name,
                                    newFile |-> newSym.filePath,
                                    newSymbol |-> newSym.name]}]
            ELSE st,
            syms \ {sym}, bs)

\* the symbols snapshotted from the deleted files before anything is deleted
snapshot(db, bs, deleted) ==
  {s \in db.symbols :
     s.filePath \in deleted /\ s.project = resolveFileProject(s.filePath, bs)}

\* _doIndex from the classified changeset on; a throw out of the transaction
\* rejects the run before the move detection
doIndex(db, dsk, bs, changed, deleted, useTransaction) ==
  LET deletedSymbols == snapshot(db, bs, deleted)
      applied == IF useTransaction
                 THEN transaction(db, fullIndexBody(db, dsk, bs, changed))
                 ELSE processChanged(processDeleted(db, bs, deleted), dsk, bs, changed)
      moved == retargetMoved([db |-> applied.db, retargets |-> {}],
                             deletedSymbols, bs)
  IN IF applied.threw
     THEN [db |-> applied.db, failedFiles |-> {}, outcome |-> "rejected",
           retargets |-> {}]
     ELSE [db |-> moved.db, failedFiles |-> applied.failedFiles,
           outcome |-> "resolved", retargets |-> moved.retargets]

Db == [files |-> dbFiles, symbols |-> dbSymbols, relations |-> dbRelations]

NoDb == [files |-> [k \in Keys |-> NoRec], symbols |-> {}, relations |-> {}]

NoEvents == [changed |-> {}, deleted |-> {}]

\* the source tree an index is first opened on: a.ts declares f, b.ts imports it
InitialTrees ==
  {[path \in Paths |->
      IF path = "a.ts" THEN [text |-> 1, mtimeMs |-> 0]
      ELSE IF path = "b.ts" THEN [text |-> 2, mtimeMs |-> 0]
      ELSE NoFile]}

CoordInit ==
  /\ indexingLock = FALSE
  /\ pendingEvents = <<>>
  /\ debounceTimer = FALSE
  /\ currentIndexing = NoRun
  /\ pendingFullIndex = FALSE
  /\ runs = <<>>
  /\ delivered = <<>>
  /\ calls = <<>>
  /\ epoch = 0
  /\ winBusy = {}
  /\ winFired = {}
  /\ callbacks = <<>>
  /\ fanout = [run |-> NoRun, fired |-> <<>>, before |-> <<>>]
  /\ boundariesRefresh = FALSE
  /\ refreshWaiter = NoRun
  /\ shutdown = NoShutdown

OwnInit ==
  /\ now = 0
  /\ ownerRow = NoRow
  /\ dbLock = 0
  /\ proc = [p \in Procs |-> NewProc]

IndexInit ==
  /\ disk = [path \in Paths |-> NoFile]
  /\ dclock = 0
  /\ boundaries = {"root"}
  /\ watched = NoEvents
  /\ dbFiles = NoDb.files
  /\ dbSymbols = {}
  /\ dbRelations = {}
  /\ indexLog = <<>>

\* the unsubscribe functions onIndexed() hands out: none yet
NoHandles == [cb \in Subscribers |-> "none"]

NoFanout == [fired |-> {}, late |-> {}]

NoFacadeCall == [op |-> "none", closed |-> FALSE, closePc |-> "idle",
                 outcome |-> "none"]

\* before CodeLedger.open(): no store, no instance
LedgerInit ==
  /\ openPc = [at |-> "store", threw |-> FALSE]
  /\ store = "unopened"
  /\ role = "none"
  /\ closed = FALSE
  /\ coordinator = FALSE
  /\ watcher = FALSE
  /\ timer = "null"
  /\ signalHandlers = FALSE
  /\ owned = FALSE
  /\ closePc = "idle"
  /\ promotePc = "idle"
  /\ teardown = <<>>
  /\ closeCalls = <<>>
  /\ onIndexedCallbacks = {}
  /\ coordCallbacks = {}
  /\ handles = NoHandles
  /\ unsubscribed = {}
  /\ ledgerFanout = NoFanout
  /\ facadeLog = NoFacadeCall

NoReplace == [project |-> "none", srcFilePath |-> "none", rels |-> {}, outgoing |-> {}]

NoOpenCall == [st |-> "none", attempts |-> 0, unlinks |-> 0, cause |-> "none"]

NoTxResult == [level |-> 0, outcome |-> "none", passed |-> "none", got |-> "none",
               begin |-> {}, before |-> {}, after |-> {}, depthAfter |-> 0,
               durable |-> {}, inner |-> "none"]

\* a DbConnection that was constructed and not opened, and an empty
\* relations table
StoreInit ==
  /\ relTable = {}
  /\ lastReplace = NoReplace
  /\ client = FALSE
  /\ openCall = NoOpenCall
  /\ tableRows = {}
  /\ txDepth = 0
  /\ savepoints = <<>>
  /\ txResult = NoTxResult

NoQuery == [filePath |-> "none", result |-> {}]

\* no graph built
GraphIdle ==
  /\ importEdges = {}
  /\ dependentsQuery = NoQuery

\* no package.json event was delivered: no discovery, no stored promise
RefreshIdle ==
  /\ discoveries = <<>>
  /\ optsBoundaries = 0
  /\ refreshPromise = 0
  /\ awaiting = 0
  /\ refreshLog = <<>>

NoResult == [mode |-> "none"]

\* no event is buffered and no run has returned
ResultIdle ==
  /\ batch = <<>>
  /\ lastResult = NoResult

Init ==
  /\ CoordInit /\ OwnInit /\ IndexInit /\ LedgerInit /\ StoreInit /\ GraphIdle
  /\ RefreshIdle /\ ResultIdle

Next ==
  \/ FullIndex
  \/ IncrementalIndex
  \/ \E kind \in EventKinds : HandleWatcherEvent(kind)
  \/ TimerFire
  \/ \E r \in DOMAIN runs : \E outcome \in {"resolved", "rejected"} : RunSettle(r, outcome)
  \/ \E r \in DOMAIN runs : Finalize(r)

Spec == Init /\ [][Next]_vars

\* ------------------------------------------------------------------------
\* subscribers

\* onIndexed(cb): callbacks.add(cb); adding a callback that is in the set
\* changes nothing
Subscribe(cb) ==
  /\ cb \notin Range(callbacks)
  /\ callbacks' = Append(callbacks, cb)
  /\ UNCHANGED <<indexingLock, pendingEvents, debounceTimer, currentIndexing,
                 pendingFullIndex, runs, delivered, calls, epoch, winBusy, winFired,
                 fanout, boundariesRefresh, refreshWaiter, shutdown>>
  /\ UNCHANGED <<ownVars, indexVars, ledgerVars, storeVars, graphVars, refreshVars,
                 resultVars>>

\* the function returned by onIndexed(cb): callbacks.delete(cb)
Unsubscribe(cb) ==
  /\ cb \in Range(callbacks)
  /\ callbacks' = SelectSeq(callbacks, LAMBDA c : c # cb)
  /\ UNCHANGED <<indexingLock, pendingEvents, debounceTimer, currentIndexing,
                 pendingFullIndex, runs, delivered, calls, epoch, winBusy, winFired,
                 fanout, boundariesRefresh, refreshWaiter, shutdown>>
  /\ UNCHANGED <<ownVars, indexVars, ledgerVars, storeVars, graphVars, refreshVars,
                 resultVars>>

\* the coordinator as the watcher drives it, with subscribers coming and going
FanoutNext ==
  \/ \E kind \in EventKinds : HandleWatcherEvent(kind)
  \/ TimerFire
  \/ \E r \in DOMAIN runs : \E outcome \in {"resolved", "rejected"} : RunSettle(r, outcome)
  \/ \E r \in DOMAIN runs : Finalize(r)
  \/ \E cb \in Subscribers : Subscribe(cb)
  \/ \E cb \in Subscribers : Unsubscribe(cb)

FanoutSpec == Init /\ [][FanoutNext]_vars

\* ------------------------------------------------------------------------
\* package.json events and the boundaries refresh

\* _doIndex resumes after `await this.boundariesRefresh` and clears the field
RefreshAwaited(r) ==
  /\ r \in DOMAIN runs
  /\ refreshWaiter = r
  /\ runs[r].st = "running"
  /\ boundariesRefresh' = FALSE
  /\ refreshWaiter' = NoRun
  /\ UNCHANGED <<indexingLock, pendingEvents, debounceTimer, currentIndexing,
                 pendingFullIndex, runs, delivered, calls, epoch, winBusy, winFired,
                 callbacks, fanout, shutdown>>
  /\ UNCHANGED <<ownVars, indexVars, ledgerVars, storeVars, graphVars, refreshVars,
                 resultVars>>

\* incrementalIndex() calls and watcher events of every kind
WatchNext ==
  \/ IncrementalIndex
  \/ \E kind \in AllEventKinds : HandleWatcherEvent(kind)
  \/ TimerFire
  \/ \E r \in DOMAIN runs : \E outcome \in {"resolved", "rejected"} : RunSettle(r, outcome)
  \/ \E r \in DOMAIN runs : Finalize(r)
  \/ \E r \in DOMAIN runs : RefreshAwaited(r)

WatchSpec == Init /\ [][WatchNext]_vars

\* ------------------------------------------------------------------------
\* shutdown

\* shutdown(), up to its await: the armed timer is cleared; with a stored
\* run promise the call awaits it, without one it resolves
ShutdownCall ==
  /\ shutdown.st = "none"
  /\ debounceTimer' = FALSE
  /\ shutdown' = [st |-> IF currentIndexing # NoRun THEN "waiting" ELSE "resolved",
                  awaits |-> currentIndexing,
                  calls |-> Len(calls), delivered |-> Len(delivered)]
  /\ UNCHANGED <<indexingLock, pendingEvents, currentIndexing, pendingFullIndex, runs,
                 delivered, calls, epoch, winBusy, winFired, callbacks, fanout,
                 boundariesRefresh, refreshWaiter>>
  /\ UNCHANGED <<ownVars, indexVars, ledgerVars, storeVars, graphVars, refreshVars,
                 resultVars>>

\* the awaited run promise has settled, its .finally block included:
\* shutdown() resumes after the await and settles the same way
ShutdownSettle ==
  /\ shutdown.st = "waiting"
  /\ runs[shutdown.awaits].st = "done"
  /\ shutdown' = [shutdown EXCEPT !.st = runs[shutdown.awaits].outcome]
  /\ UNCHANGED <<indexingLock, pendingEvents, debounceTimer, currentIndexing,
                 pendingFullIndex, runs, delivered, calls, epoch, winBusy, winFired,
                 callbacks, fanout, boundariesRefresh, refreshWaiter>>
  /\ UNCHANGED <<ownVars, indexVars, ledgerVars, storeVars, graphVars, refreshVars,
                 resultVars>>

ShutdownNext ==
  \/ Next
  \/ ShutdownCall
  \/ ShutdownSettle

ShutdownSpec == Init /\ [][ShutdownNext]_vars

\* ========================================================================
\* Properties of the coordinator (checked under Spec)

BatchesWith(e) == {r \in DOMAIN runs : InSeq(e, runs[r].events)}

EventsOfWindow(w) == {delivered[i] : i \in {j \in DOMAIN delivered : delivered[j].win = w}}

IsFinalizeOf(r) == runs[r].st = "settled" /\ runs'[r].st = "done"

\* C1: at most one run is in progress at any moment: the lock is held exactly
\* while a run is in progress, and that run is the one currentIndexing names,
\* so no run is started while the lock is held.
C1_AtMostOneRun ==
  /\ Cardinality(Running(runs)) <= 1
  /\ indexingLock <=> (Running(runs) # {})
  /\ indexingLock => Running(runs) = {currentIndexing}

\* a call arrived while the lock was held and started nothing
C1_Witness ==
  /\ indexingLock
  /\ \E i \in DOMAIN calls : calls[i].during # NoRun /\ ~calls[i].started
  /\ \E r \in DOMAIN runs : runs[r].by = "timer"

\* C2 (as stated): every event given to handleWatcherEvent while a run is in
\* progress is in the batch of exactly one later run, or still buffered, and
\* never in the batch of the run that was in flight.
C2_EveryEventBatched ==
  \A i \in DOMAIN delivered :
    LET e == delivered[i] IN
      e.during # NoRun =>
        /\ e.during \notin BatchesWith(e)
        /\ Cardinality(BatchesWith(e)) <= 1
        /\ InSeq(e, pendingEvents) <=> (BatchesWith(e) = {})
        /\ \A r \in BatchesWith(e) : r > e.during
        /\ InSeq(e, pendingEvents) => indexingLock

\* C2 (amended): the same for every event other than tsconfig.json; a
\* tsconfig.json event is not buffered, it queues a full run instead.
C2_BufferedEventBatched ==
  \A i \in DOMAIN delivered :
    LET e == delivered[i] IN
      e.during # NoRun =>
        IF e.kind = "tsconfig"
          THEN /\ BatchesWith(e) = {}
               /\ ~InSeq(e, pendingEvents)
               /\ pendingFullIndex \/ \E r \in DOMAIN runs : r > e.during /\ runs[r].mode = "full"
          ELSE /\ e.during \notin BatchesWith(e)
               /\ Cardinality(BatchesWith(e)) <= 1
               /\ InSeq(e, pendingEvents) <=> (BatchesWith(e) = {})
               /\ \A r \in BatchesWith(e) : r > e.during
               /\ InSeq(e, pendingEvents) => indexingLock

\* an event that arrived during a run was drained into the next run by the
\* finalizer
C2_Witness ==
  \E i \in DOMAIN delivered :
    /\ delivered[i].during # NoRun
    /\ delivered[i].kind # "tsconfig"
    /\ \E r \in BatchesWith(delivered[i]) : runs[r].by = "fin" /\ runs[delivered[i].during].st = "done"

\* C3: the finalizer of a run, resolved or rejected, leaves the lock free and
\* currentIndexing null, unless a full index is pending or events are
\* buffered: then it has started exactly one new run, which holds the lock.
C3_Finalizer ==
  [][\A r \in DOMAIN runs :
       IsFinalizeOf(r) =>
         IF pendingFullIndex \/ Len(pendingEvents) > 0
           THEN /\ Len(runs') = Len(runs) + 1
                /\ runs'[Len(runs')].by = "fin"
                /\ runs'[Len(runs')].st = "running"
                /\ indexingLock'
                /\ currentIndexing' = Len(runs')
           ELSE /\ ~indexingLock'
                /\ currentIndexing' = NoRun
                /\ Len(runs') = Len(runs)]_vars

\* a rejected run was finalized and its finalizer started the next run
C3_Witness ==
  \E r \in DOMAIN runs :
    /\ runs[r].st = "done"
    /\ runs[r].outcome = "rejected"
    /\ r + 1 \in DOMAIN runs
    /\ runs[r + 1].by = "fin"

\* C4 (as stated): the events of one debounce window all end up in the batch
\* of one and the same run, whatever the coordinator is doing.
C4_OneRunPerWindow ==
  \A w \in 1..epoch :
    \A e1 \in EventsOfWindow(w) : \A e2 \in EventsOfWindow(w) :
      \A r1 \in BatchesWith(e1) : \A r2 \in BatchesWith(e2) : r1 = r2

\* C4 (amended): when no run is in flight during the window, the timer's run
\* is the one run that holds every event of the window; and the timer is
\* armed only when it was not armed.
C4_OneRunPerIdleWindow ==
  /\ [](\A w \in winFired \ winBusy :
          \E r \in DOMAIN runs :
            /\ runs[r].by = "timer"
            /\ runs[r].mode = "incr"
            /\ \A e \in EventsOfWindow(w) : BatchesWith(e) = {r})
  /\ [][debounceTimer => epoch' = epoch]_vars

\* two events of one idle window were flushed by the timer
C4_Witness ==
  \E w \in winFired \ winBusy :
    /\ Cardinality(EventsOfWindow(w)) >= 2
    /\ \E r \in DOMAIN runs : runs[r].by = "timer" /\ Len(runs[r].events) >= 2

\* C5: fullIndex() during a run starts nothing, sets pendingFullIndex and
\* returns the in-flight run's promise; the finalizer then starts exactly one
\* full run and leaves the buffer alone; the events buffered then are drained
\* by an incremental run after that full run.
C5_QueuedFullIndex ==
  /\ [](/\ \A i \in DOMAIN calls :
             (calls[i].op = "fullIndex" /\ calls[i].during # NoRun) =>
               /\ ~calls[i].started
               /\ calls[i].pfAfter
               /\ calls[i].ret = calls[i].during
        /\ \A r \in DOMAIN runs :
             (runs[r].by = "fin" /\ runs[r].mode = "full") =>
               \A k \in DOMAIN runs[r].held :
                 LET e == runs[r].held[k] IN
                   /\ \A r2 \in BatchesWith(e) : r2 > r /\ runs[r2].mode = "incr"
                   /\ InSeq(e, pendingEvents) \/ BatchesWith(e) # {})
  /\ [][\A r \in DOMAIN runs :
          (IsFinalizeOf(r) /\ pendingFullIndex) =>
            /\ Len(runs') = Len(runs) + 1
            /\ runs'[Len(runs')].mode = "full"
            /\ pendingEvents' = pendingEvents
            /\ ~pendingFullIndex']_vars

\* a fullIndex() call was queued behind a run while an event was buffered;
\* the finalizer ran the full index first and the event after it
C5_Witness ==
  /\ \E i \in DOMAIN calls : calls[i].op = "fullIndex" /\ calls[i].during # NoRun
  /\ \E r \in DOMAIN runs :
       /\ runs[r].by = "fin"
       /\ runs[r].mode = "full"
       /\ Len(runs[r].held) > 0
       /\ \E r2 \in BatchesWith(runs[r].held[1]) : r2 > r

\* ------------------------------------------------------------------------
\* CodeLedger facade and watcher ownership, one instance per process
InCall(p) == proc[p].pc \in {"acquire", "txn"}

Overlapping(p) == {q \in Procs \ {p} : InCall(q)}

\* p calls acquireWatcherRole; history: peers is the set of processes whose
\* latest call overlaps p's latest call
callAcquire(p, cont, due) ==
  [q \in Procs |->
     IF q = p
     THEN [proc[p] EXCEPT !.pc = "acquire", !.cont = cont, !.due = due,
                          !.acquired = "pending", !.peers = Overlapping(p)]
     ELSE IF InCall(q)
          THEN [proc[q] EXCEPT !.peers = @ \cup {p}]
          ELSE [proc[q] EXCEPT !.peers = @ \ {p}]]

\* CodeLedger.open up to step 5, the call of acquireWatcherRole
OpenCall(p) ==
  /\ proc[p].alive /\ proc[p].pc = "init"
  /\ proc' = callAcquire(p, "open", 0)
  /\ UNCHANGED <<now, ownerRow, dbLock>>
  /\ UNCHANGED <<coordVars, indexVars, ledgerVars, storeVars, graphVars, refreshVars,
                 resultVars>>

\* the healthcheck timer fires in a reader and calls acquireWatcherRole
HealthcheckTick(p) ==
  /\ proc[p].alive /\ proc[p].pc = "reader"
  /\ proc[p].timer = "healthcheck" /\ proc[p].due <= now
  /\ proc' = callAcquire(p, "health", now + HEALTHCHECK_INTERVAL_MS)
  /\ UNCHANGED <<now, ownerRow, dbLock>>
  /\ UNCHANGED <<coordVars, indexVars, ledgerVars, storeVars, graphVars, refreshVars,
                 resultVars>>

\* acquireWatcherRole steps 1-2: begin the transaction and read row 1
AcquireBegin(p) ==
  /\ proc[p].alive /\ proc[p].pc = "acquire"
  /\ beginImmediate(dbLock)
  /\ dbLock' = p
  /\ proc' = [proc EXCEPT ![p].pc = "txn", ![p].seen = ownerRow]
  /\ UNCHANGED <<now, ownerRow>>
  /\ UNCHANGED <<coordVars, indexVars, ledgerVars, storeVars, graphVars, refreshVars,
                 resultVars>>

\* acquireWatcherRole steps 3-4 and COMMIT, then the caller's continuation:
\* open's role-specific setup, or the healthcheck's promotion, up to the
\* await of watcher.start
AcquireCommit(p) ==
  /\ proc[p].alive /\ proc[p].pc = "txn"
  /\ LET res == acquireWatcherRole(proc[p].seen, p, now)
         me == [proc[p] EXCEPT !.acquired = res.role]
     IN /\ ownerRow' = IF res.write THEN res.row ELSE ownerRow
        /\ dbLock' = IF dbLock = p THEN 0 ELSE dbLock
        /\ proc' = [proc EXCEPT ![p] =
             IF res.role = "owner"
             THEN IF me.cont = "open"
                  THEN [me EXCEPT !.pc = "starting", !.coordinator = TRUE]
                  ELSE [me EXCEPT !.pc = "promoting", !.timer = "none",
                                  !.coordinator = TRUE,
                                  !.coordCbs = forwardCallbacks(me.cbs)]
             ELSE IF me.cont = "open"
                  THEN [me EXCEPT !.pc = "reader", !.timer = "healthcheck",
                                  !.due = now + HEALTHCHECK_INTERVAL_MS]
                  ELSE [me EXCEPT !.pc = "reader"]]
  /\ UNCHANGED now
  /\ UNCHANGED <<coordVars, indexVars, ledgerVars, storeVars, graphVars, refreshVars,
                 resultVars>>

\* watcher.start resolves: the heartbeat timer is set and fullIndex() is called
\* (open as owner, or a promoted reader)
WatcherStarted(p) ==
  /\ proc[p].alive /\ proc[p].pc \in {"starting", "promoting"}
  /\ proc' = [proc EXCEPT ![p].pc = "owner", ![p].watching = TRUE,
                          ![p].timer = "heartbeat",
                          ![p].due = now + HEARTBEAT_INTERVAL_MS,
                          ![p].fullIndexCalls = @ + 1]
  /\ UNCHANGED <<now, ownerRow, dbLock>>
  /\ UNCHANGED <<coordVars, indexVars, ledgerVars, storeVars, graphVars, refreshVars,
                 resultVars>>

\* watcher.start rejects: open closes the database and rethrows, the
\* healthcheck logs the error; neither releases the role
WatcherStartFails(p) ==
  /\ proc[p].alive /\ proc[p].pc \in {"starting", "promoting"}
  /\ proc' = [proc EXCEPT ![p].pc =
                IF proc[p].pc = "starting" THEN "failed" ELSE "stuck"]
  /\ UNCHANGED <<now, ownerRow, dbLock>>
  /\ UNCHANGED <<coordVars, indexVars, ledgerVars, storeVars, graphVars, refreshVars,
                 resultVars>>

\* the heartbeat timer fires in an owner
Heartbeat(p) ==
  /\ proc[p].alive /\ proc[p].timer = "heartbeat" /\ proc[p].due <= now
  /\ dbLock = 0
  /\ ownerRow' = updateHeartbeat(ownerRow, p, now)
  /\ proc' = [proc EXCEPT ![p].due = now + HEARTBEAT_INTERVAL_MS]
  /\ UNCHANGED <<now, dbLock>>
  /\ UNCHANGED <<coordVars, indexVars, ledgerVars, storeVars, graphVars, refreshVars,
                 resultVars>>

\* CodeLedger.onIndexed(callback)
OnIndexed(p, cb) ==
  /\ proc[p].alive /\ proc[p].pc \in {"reader", "owner", "promoting", "stuck"}
  /\ cb \notin proc[p].cbs
  /\ proc' = [proc EXCEPT ![p].cbs = @ \cup {cb},
                          ![p].coordCbs = IF proc[p].coordinator
                                          THEN @ \cup {cb} ELSE @]
  /\ UNCHANGED <<now, ownerRow, dbLock>>
  /\ UNCHANGED <<coordVars, indexVars, ledgerVars, storeVars, graphVars, refreshVars,
                 resultVars>>

\* CodeLedger.close
Close(p) ==
  /\ proc[p].alive /\ proc[p].pc \in {"reader", "owner", "stuck"}
  /\ dbLock = 0
  /\ ownerRow' = releaseWatcherRole(ownerRow, p)
  /\ proc' = [proc EXCEPT ![p].pc = "closed", ![p].watching = FALSE,
                          ![p].timer = "none"]
  /\ UNCHANGED <<now, dbLock>>
  /\ UNCHANGED <<coordVars, indexVars, ledgerVars, storeVars, graphVars, refreshVars,
                 resultVars>>

\* the process is killed: no handler runs, the row stays
Die(p) ==
  /\ proc[p].alive /\ proc[p].pc # "init"
  /\ dbLock' = IF dbLock = p THEN 0 ELSE dbLock
  /\ proc' = [proc EXCEPT ![p].alive = FALSE, ![p].pc = "dead",
                          ![p].watching = FALSE, ![p].timer = "none",
                          ![p].diedAt = now]
  /\ UNCHANGED <<now, ownerRow>>
  /\ UNCHANGED <<coordVars, indexVars, ledgerVars, storeVars, graphVars, refreshVars,
                 resultVars>>

\* time passes; an acquireWatcherRole call does not span a clock step
\* (the database busy timeout is far below the heartbeat interval)
Tick ==
  /\ now < MaxTicks * HEARTBEAT_INTERVAL_MS
  /\ \A p \in Procs : ~InCall(p)
  /\ now' = now + HEARTBEAT_INTERVAL_MS
  /\ UNCHANGED <<ownerRow, dbLock, proc>>
  /\ UNCHANGED <<coordVars, indexVars, ledgerVars, storeVars, graphVars, refreshVars,
                 resultVars>>

\* time passes once every timer that is due has fired
Overdue(p) == proc[p].alive /\ proc[p].timer # "none" /\ proc[p].due <= now

TickOnTime ==
  /\ \A p \in Procs : ~Overdue(p)
  /\ Tick

OwnStep ==
  \/ \E p \in Procs : OpenCall(p)
  \/ \E p \in Procs : HealthcheckTick(p)
  \/ \E p \in Procs : AcquireBegin(p)
  \/ \E p \in Procs : AcquireCommit(p)
  \/ \E p \in Procs : WatcherStarted(p)
  \/ \E p \in Procs : WatcherStartFails(p)
  \/ \E p \in Procs : Heartbeat(p)
  \/ \E p \in Procs, cb \in Callbacks : OnIndexed(p, cb)
  \/ \E p \in Procs : Close(p)
  \/ \E p \in Procs : Die(p)

OwnNext == OwnStep \/ Tick

OwnerSpec == Init /\ [][OwnNext]_vars

OwnTimelyNext == OwnStep \/ TickOnTime

OwnerTimelySpec == Init /\ [][OwnTimelyNext]_vars

\* ------------------------------------------------------------------------
\* properties of watcher ownership
Holds(p) == proc[p].alive /\ proc[p].pc # "closed"

Watching == {p \in Procs : proc[p].alive /\ proc[p].watching}

Promoted(p) == proc[p].cont = "health" /\ proc[p].acquired = "owner"

\* C6: two acquire calls that overlap never both return owner: of two live
\* processes whose latest calls overlapped (neither having released the role
\* since), at most one was answered owner.
C6_NoTwoOwners ==
  \A p \in Procs : \A q \in proc[p].peers :
    (Holds(p) /\ Holds(q) /\ proc[p].acquired = "owner")
      => proc[q].acquired # "owner"

\* two overlapping calls have both returned, one owner and one reader
C6_Witness ==
  \E p \in Procs : \E q \in proc[p].peers :
    /\ Holds(p) /\ Holds(q)
    /\ proc[p].acquired = "owner" /\ proc[q].acquired = "reader"
    /\ ownerRow.pid = p

\* C7: at any time at most one live process runs the file-system watcher.
C7_SingleWatcher == Cardinality(Watching) <= 1

\* C8: when the owner has died without releasing the role, a reader whose
\* timers fire on time takes the role over within 60 s + 90 s of the death;
\* the promoted reader's coordinator holds every callback registered on the
\* facade, and once its watcher has started the heartbeat timer runs and
\* fullIndex() has been called.
C8_ReaderPromotion ==
  /\ \A r \in Procs :
       (/\ proc[r].alive /\ proc[r].timer = "healthcheck"
        /\ ownerRow # NoRow /\ ownerRow.pid # r
        /\ ~isProcessAlive(ownerRow.pid))
         => now - proc[ownerRow.pid].diedAt
              <= HEALTHCHECK_INTERVAL_MS + HEARTBEAT_STALE_MS
  /\ \A r \in Procs :
       (proc[r].alive /\ Promoted(r) /\ proc[r].pc \in {"promoting", "owner"})
         => /\ proc[r].coordinator
            /\ proc[r].cbs \subseteq proc[r].coordCbs
            /\ proc[r].pc = "owner"
                 => /\ proc[r].watching
                    /\ proc[r].timer = "heartbeat"
                    /\ proc[r].fullIndexCalls = 1

\* the owner died holding the role and a reader with a registered callback
\* has been promoted and has started its watcher
C8_Witness ==
  \E o \in Procs, r \in Procs :
    /\ o # r
    /\ ~proc[o].alive /\ proc[o].acquired = "owner" /\ proc[o].fullIndexCalls = 1
    /\ proc[r].alive /\ Promoted(r) /\ proc[r].pc = "owner"
    /\ proc[r].cbs # {} /\ proc[r].coordCbs = proc[r].cbs
    /\ ownerRow.pid = r
    /\ proc[r].watching /\ proc[r].fullIndexCalls = 1
    /\ now - proc[o].diedAt <= HEALTHCHECK_INTERVAL_MS + HEARTBEAT_STALE_MS

\* ------------------------------------------------------------------------
\* indexing runs over a changing source tree; the coordinator's lock makes
\* the runs sequential
Logged(mode, changed, deleted, res) ==
  Append(indexLog, [mode |-> mode, disk |-> disk, boundaries |-> boundaries,
                    changed |-> changed, deleted |-> deleted,
                    before |-> Db, after |-> res.db,
                    failedFiles |-> res.failedFiles, outcome |-> res.outcome,
                    retargets |-> res.retargets])

Persist(res) ==
  /\ dbFiles' = res.db.files
  /\ dbSymbols' = res.db.symbols
  /\ dbRelations' = res.db.relations

\* a file is created or rewritten; the watcher reports a create/change event
DiskWrite(path, text) ==
  /\ dclock < MaxWrites
  /\ dclock' = dclock + 1
  /\ disk' = [disk EXCEPT ![path] = [text |-> text, mtimeMs |-> dclock + 1]]
  /\ watched' = [watched EXCEPT !.changed = @ \cup {path}]
  /\ UNCHANGED <<boundaries, dbFiles, dbSymbols, dbRelations, indexLog>>
  /\ UNCHANGED <<coordVars, ownVars, ledgerVars, storeVars, graphVars, refreshVars,
                 resultVars>>

\* a file is removed; the watcher reports a delete event
DiskDelete(path) ==
  /\ dclock < MaxWrites
  /\ disk[path] # NoFile
  /\ dclock' = dclock + 1
  /\ disk' = [disk EXCEPT ![path] = NoFile]
  /\ watched' = [watched EXCEPT !.deleted = @ \cup {path}]
  /\ UNCHANGED <<boundaries, dbFiles, dbSymbols, dbRelations, indexLog>>
  /\ UNCHANGED <<coordVars, ownVars, ledgerVars, storeVars, graphVars, refreshVars,
                 resultVars>>

\* a file is renamed; the watcher reports a delete event for the old path and
\* a create event for the new one
DiskMove(from, to) ==
  /\ dclock < MaxWrites
  /\ disk[from] # NoFile
  /\ disk[to] = NoFile
  /\ dclock' = dclock + 1
  /\ disk' = [disk EXCEPT ![from] = NoFile, ![to] = disk[from]]
  /\ watched' = [changed |-> watched.changed \cup {to},
                 deleted |-> watched.deleted \cup {from}]
  /\ UNCHANGED <<boundaries, dbFiles, dbSymbols, dbRelations, indexLog>>
  /\ UNCHANGED <<coordVars, ownVars, ledgerVars, storeVars, graphVars, refreshVars,
                 resultVars>>

\* pkg/package.json is created or removed: handleWatcherEvent re-runs
\* discoverProjects and the next run sees the new boundaries
PackageJsonChange(bs) ==
  /\ dclock < MaxWrites
  /\ bs # boundaries
  /\ dclock' = dclock + 1
  /\ boundaries' = bs
  /\ UNCHANGED <<disk, watched, dbFiles, dbSymbols, dbRelations, indexLog>>
  /\ UNCHANGED <<coordVars, ownVars, ledgerVars, storeVars, graphVars, refreshVars,
                 resultVars>>

\* fullIndex(): _doIndex(undefined, true)
FullIndexRun ==
  /\ Len(indexLog) < MaxRuns
  /\ LET det == detectChanges(disk, existingMap(Db, boundaries))
         res == doIndex(Db, disk, boundaries, det.changed, det.deleted, TRUE)
     IN /\ Persist(res)
        /\ indexLog' = Logged("full", det.changed, det.deleted, res)
  /\ UNCHANGED <<disk, dclock, boundaries, watched>>
  /\ UNCHANGED <<coordVars, ownVars, ledgerVars, storeVars, graphVars, refreshVars,
                 resultVars>>

\* incrementalIndex(): _doIndex(undefined, false)
IncrementalDetectRun ==
  /\ Len(indexLog) < MaxRuns
  /\ LET det == detectChanges(disk, existingMap(Db, boundaries))
         res == doIndex(Db, disk, boundaries, det.changed, det.deleted, FALSE)
     IN /\ Persist(res)
        /\ indexLog' = Logged("incremental", det.changed, det.deleted, res)
  /\ UNCHANGED <<disk, dclock, boundaries, watched>>
  /\ UNCHANGED <<coordVars, ownVars, ledgerVars, storeVars, graphVars, refreshVars,
                 resultVars>>

\* a drained batch: _doIndex(events, false); create and change events go to
\* changed, delete events to deleted
IncrementalEventsRun(changed, deleted) ==
  /\ Len(indexLog) < MaxRuns
  /\ changed \cup deleted # {}
  /\ LET res == doIndex(Db, disk, boundaries, changed, deleted, FALSE)
     IN /\ Persist(res)
        /\ indexLog' = Logged("events", changed, deleted, res)
  /\ watched' = NoEvents
  /\ UNCHANGED <<disk, dclock, boundaries>>
  /\ UNCHANGED <<coordVars, ownVars, ledgerVars, storeVars, graphVars, refreshVars,
                 resultVars>>

IndexNext ==
  \/ \E path \in Paths, text \in Written : DiskWrite(path, text)
  \/ \E path \in Paths : DiskDelete(path)
  \/ \E from \in Paths, to \in Paths : DiskMove(from, to)
  \/ \E bs \in BoundarySets : PackageJsonChange(bs)
  \/ FullIndexRun
  \/ IncrementalDetectRun
  \/ IncrementalEventsRun(watched.changed, watched.deleted)

\* the index is first opened on one of the initial trees, with an empty database
IndexTreeInit ==
  /\ disk \in InitialTrees
  /\ boundaries \in BoundarySets
  /\ watched = NoEvents
  /\ dclock = 0
  /\ dbFiles = NoDb.files
  /\ dbSymbols = {}
  /\ dbRelations = {}
  /\ indexLog = <<>>

IndexOpenInit ==
  /\ CoordInit /\ OwnInit /\ IndexTreeInit /\ LedgerInit /\ StoreInit /\ GraphIdle
  /\ RefreshIdle /\ ResultIdle

IndexSpec == IndexOpenInit /\ [][IndexNext]_vars

\* ------------------------------------------------------------------------
\* properties of the persisted index
Rows(db) == {k[2] : k \in {x \in Keys : db.files[x] # NoRec}}

\* what indexing the tree dsk from scratch stores
Rebuilt(dsk, bs) == processFiles(NoDb, dsk, bs, Scanned(dsk))

\* C9: two consecutive full runs over the same source tree leave the same
\* database: equal file rows (updatedAt is not modelled), symbol rows and
\* relation rows.
C9_FullIndexIdempotent ==
  \A i \in 1..(Len(indexLog) - 1) :
    (/\ indexLog[i].mode = "full" /\ indexLog[i + 1].mode = "full"
     /\ indexLog[i].outcome = "resolved" /\ indexLog[i + 1].outcome = "resolved"
     /\ indexLog[i].disk = indexLog[i + 1].disk
     /\ indexLog[i].boundaries = indexLog[i + 1].boundaries)
      => indexLog[i + 1].after = indexLog[i].after

\* C10: after a full run the file rows are exactly the source files on disk
\* and every one of them carries what indexing its current content stores,
\* whatever the change detector reported.
C10_FullIndexRebuilds ==
  \A i \in 1..Len(indexLog) :
    (indexLog[i].mode = "full" /\ indexLog[i].outcome = "resolved")
      => /\ Rows(indexLog[i].after) = Scanned(indexLog[i].disk)
         /\ indexLog[i].after = Rebuilt(indexLog[i].disk, indexLog[i].boundaries)

\* the file rows a run over the changed files writes
WrittenKeys(e) == {<<resolveFileProject(path, e.boundaries), path>> : path \in e.changed}

\* C11: after a successful full run no file row of a previous indexing is
\* left, for any project stored in the database, whether or not the project
\* is among the current boundaries: every file row was written by this run.
C11_FullIndexClearsEveryProject ==
  \A i \in 1..Len(indexLog) :
    (indexLog[i].mode = "full" /\ indexLog[i].outcome = "resolved")
      => \A k \in Keys :
           indexLog[i].after.files[k] # NoRec => k \in WrittenKeys(indexLog[i])

\* the run's changed files that throw while being read and parsed
Failing(e) == {path \in e.changed : throws(e.disk, path)}

\* C12: when something throws inside the full-index transaction the database
\* is left exactly as it was before the run (no row deleted, none added) and
\* the run's promise rejects.
C12_FullIndexAborts ==
  \A i \in 1..Len(indexLog) :
    (indexLog[i].mode = "full" /\ Failing(indexLog[i]) # {})
      => /\ indexLog[i].after = indexLog[i].before
         /\ indexLog[i].outcome = "rejected"

\* a full run over an indexed project met a file that does not parse
C12_Witness ==
  \E i \in 1..Len(indexLog) :
    /\ indexLog[i].mode = "full"
    /\ Failing(indexLog[i]) # {}
    /\ Rows(indexLog[i].before) # {}
    /\ indexLog[i].outcome = "rejected"
    /\ Db = indexLog[i].before

\* the database db holds what indexing the current content of path stores
IndexedIn(db, dsk, bs, path) ==
  LET project == resolveFileProject(path, bs)
      contentHash == hashString(dsk[path].text)
  IN /\ db.files[<<project, path>>] =
          [contentHash |-> contentHash, mtimeMs |-> dsk[path].mtimeMs,
           size |-> sizeOf(dsk[path].text)]
     /\ {s \in db.symbols : s.project = project /\ s.filePath = path} =
          {buildRow(n, project, path, contentHash) :
             n \in extractSymbols(dsk[path].text)}

\* the failure of the changed files that throw is confined to them in run i
Confined(i) ==
  LET e == indexLog[i] IN
    /\ e.outcome = "resolved"
    /\ e.failedFiles = Failing(e)
    /\ \A path \in e.changed \ Failing(e) :
         IndexedIn(e.after, e.disk, e.boundaries, path)
    /\ \A j \in (i + 1)..Len(indexLog) :
         indexLog[j].mode # "full" => indexLog[j].outcome = "resolved"

\* C13 (as stated): in any run, incremental or full, a failure while
\* processing one changed file is confined to that file: it is listed in
\* failedFiles, every other changed file is indexed, the run resolves and a
\* later incremental run succeeds.
C13_FailureConfined ==
  \A i \in 1..Len(indexLog) : Failing(indexLog[i]) # {} => Confined(i)

\* C13 (amended): the same for incremental runs; a full run is aborted as a
\* whole by the first failure.
C13_IncrementalFailureConfined ==
  \A i \in 1..Len(indexLog) :
    (indexLog[i].mode # "full" /\ Failing(indexLog[i]) # {}) => Confined(i)

\* an incremental run indexed two files and failed on a third, and a later
\* incremental run resolved
C13_Witness ==
  \E i \in 1..Len(indexLog) :
    /\ indexLog[i].mode # "full"
    /\ Failing(indexLog[i]) # {}
    /\ Cardinality(indexLog[i].changed \ Failing(indexLog[i])) >= 2
    /\ \A path \in indexLog[i].changed \ Failing(indexLog[i]) :
         IndexedIn(Db, indexLog[i].disk, indexLog[i].boundaries, path)
    /\ \E j \in (i + 1)..Len(indexLog) :
         indexLog[j].mode # "full" /\ indexLog[j].outcome = "resolved"

\* the relation rows of a project that point at a symbol of a file
Incoming(relations, project, file, symbol) ==
  {r \in relations :
     r.project = project /\ r.dstFilePath = file /\ r.dstSymbolName = symbol}

\* in run i the symbol s of a deleted file O is carried, after the batch, by
\* exactly one symbol of O's project, and that one is in a file N the batch
\* created
MovedTo(i, s) ==
  LET e == indexLog[i]
      matches == getByFingerprint(e.after.symbols, s.project, s.fingerprint)
  IN IF /\ e.mode # "full"
        /\ s \in snapshot(e.before, e.boundaries, e.deleted)
        /\ Cardinality(matches) = 1
     THEN {n \in matches : n.filePath \in e.changed /\ n.filePath # s.filePath}
     ELSE {}

CallsFor(i, s) ==
  {c \in indexLog[i].retargets :
     c.project = s.project /\ c.oldFile = s.filePath /\ c.oldSymbol = s.name}

\* what getByFingerprint returns for s once the changeset of run i is applied
MatchesAfter(i, s) ==
  getByFingerprint(indexLog[i].after.symbols, s.project, s.fingerprint)

\* C15: for each symbol snapshotted from a deleted file, retargetRelations is
\* called if and only if the symbol has a fingerprint and getByFingerprint,
\* queried after the changeset was applied, returns exactly one symbol, and it
\* is called with that symbol; zero or several matches cause no call and no
\* error.
C15_RetargetIffUniqueMatch ==
  \A i \in 1..Len(indexLog) :
    LET e == indexLog[i]
        snap == snapshot(e.before, e.boundaries, e.deleted)
    IN /\ (e.outcome = "resolved") <=> ~(e.mode = "full" /\ Failing(e) # {})
       /\ (e.outcome = "resolved") =>
            /\ \A s \in snap :
                 /\ CallsFor(i, s) # {} <=>
                      (s.fingerprint # NoFingerprint
                         /\ Cardinality(MatchesAfter(i, s)) = 1)
                 /\ \A c \in CallsFor(i, s) :
                      \E n \in MatchesAfter(i, s) :
                        c.newFile = n.filePath /\ c.newSymbol = n.name
            /\ \A c \in e.retargets : \E s \in snap : c \in CallsFor(i, s)

\* one run snapshotted a symbol with a single match, which it retargeted, and
\* a symbol with no match, which it left alone
C15_Witness ==
  \E i \in 1..Len(indexLog) :
    \E s, t \in snapshot(indexLog[i].before, indexLog[i].boundaries,
                         indexLog[i].deleted) :
      /\ indexLog[i].outcome = "resolved"
      /\ Cardinality(MatchesAfter(i, s)) = 1 /\ CallsFor(i, s) # {}
      /\ MatchesAfter(i, t) = {} /\ CallsFor(i, t) = {}

\* in run i the fingerprint of the symbol s of a deleted file is carried,
\* after the batch, by symbols of two or more files, all created by the batch
Ambiguous(i, s) ==
  LET e == indexLog[i] IN
    /\ e.mode # "full"
    /\ e.outcome = "resolved"
    /\ s \in snapshot(e.before, e.boundaries, e.deleted)
    /\ Cardinality(MatchesAfter(i, s)) >= 2
    /\ \A n \in MatchesAfter(i, s) :
         n.filePath \in e.changed /\ n.filePath # s.filePath

\* C16 (as stated): after a run with an ambiguous match no relation points at
\* the deleted file's symbol any more: the original relation went with the
\* old file.
C16_AmbiguousMoveDropsRelation ==
  \A i \in 1..Len(indexLog) :
    \A s \in indexLog[i].before.symbols :
      Ambiguous(i, s)
        => Incoming(indexLog[i].after.relations, s.project, s.filePath, s.name) = {}

\* C16 (amended): after a run with an ambiguous match nothing was retargeted
\* for the symbol, and every relation that pointed at it from a file the batch
\* left alone is still there, unchanged: deleting the old file removes the
\* relations that start in it, not those that point at it.
C16_AmbiguousMoveKeepsRelation ==
  \A i \in 1..Len(indexLog) :
    \A s \in indexLog[i].before.symbols :
      Ambiguous(i, s)
        => /\ CallsFor(i, s) = {}
           /\ \A r \in Incoming(indexLog[i].before.relations,
                                s.project, s.filePath, s.name) :
                r.srcFilePath \notin indexLog[i].changed \cup indexLog[i].deleted
                  => r \in indexLog[i].after.relations

\* a.ts went away, c.ts and pkg/d.ts both arrived declaring f, and the import
\* of f in b.ts still names a.ts
C16_Witness ==
  \E i \in 1..Len(indexLog) :
    \E s \in indexLog[i].before.symbols :
      /\ Ambiguous(i, s)
      /\ indexLog[i].mode = "events"
      /\ s.filePath = "a.ts"
      /\ {n.filePath : n \in MatchesAfter(i, s)} = {"c.ts", "pkg/d.ts"}
      /\ \E r \in Incoming(dbRelations, s.project, "a.ts", s.name) :
           r.srcFilePath = "b.ts"
      /\ disk["a.ts"] = NoFile

\* ------------------------------------------------------------------------
\* properties of the fanout (checked under FanoutSpec)

\* the runs whose _doIndex resolves in this step
Completing ==
  {r \in DOMAIN runs :
     runs[r].st = "running" /\ runs'[r].st = "settled" /\ runs'[r].indexed = "resolved"}

\* C17: when a run completes, the callbacks registered at that moment are each
\* invoked once, in the order of their registration, and no callback that is
\* not registered then (never registered, or unsubscribed) is invoked; outside
\* that step nothing is invoked.
C17_FanoutInRegistrationOrder ==
  [][IF Completing # {}
       THEN \E r \in Completing :
              /\ fanout'.run = r
              /\ fanout'.fired = callbacks
              /\ Cardinality(Range(fanout'.fired)) = Len(fanout'.fired)
              /\ \A cb \in Subscribers \ Range(callbacks) :
                   cb \notin Range(fanout'.fired)
       ELSE fanout' = fanout]_vars

\* subscribers 1 and 2 were invoked in that order by one run; subscriber 1 was
\* then unsubscribed and the next completed run invoked subscriber 2 alone
C17_Witness ==
  /\ fanout.run >= 2
  /\ fanout.before = <<1, 2>>
  /\ fanout.fired = <<2>>

\* C18: a subscriber that throws during the fanout stops neither the
\* subscribers after it nor the run: the run's promise resolves, and the
\* run's finalizer releases the lock or hands it to the run it starts for the
\* pending work.
C18_ThrowingSubscriberContained ==
  [][/\ \A r \in Completing :
          (\E cb \in Range(callbacks) : cb \in Throwing)
            => /\ fanout'.fired = callbacks
               /\ runs'[r].outcome = "resolved"
     /\ \A r \in DOMAIN runs :
          (IsFinalizeOf(r) /\ fanout.run = r /\ Range(fanout.fired) \cap Throwing # {})
            => IF pendingFullIndex \/ Len(pendingEvents) > 0
                 THEN /\ indexingLock' /\ currentIndexing' = Len(runs')
                      /\ Len(runs') = Len(runs) + 1
                      /\ pendingFullIndex \/ pendingEvents' = <<>>
                 ELSE ~indexingLock' /\ currentIndexing' = NoRun]_vars

\* subscriber 1 threw, subscriber 2 was still invoked, the run resolved and
\* its finalizer started the run that drains the buffered event
C18_Witness ==
  \E r \in DOMAIN runs :
    /\ fanout.run = r
    /\ fanout.fired = <<1, 2>>
    /\ runs[r].st = "done"
    /\ runs[r].outcome = "resolved"
    /\ r + 1 \in DOMAIN runs
    /\ runs[r + 1].by = "fin"
    /\ runs[r + 1].events # <<>>
    /\ pendingEvents = <<>>

\* ------------------------------------------------------------------------
\* properties of the event intake (checked under WatchSpec)

\* this step is a handleWatcherEvent call
IsHandleWatcherEvent == Len(delivered') = Len(delivered) + 1

\* the call changed nothing but the buffer and the timer: the event is
\* appended, the timer is armed, no lock is taken and no run is started
OnlyBuffers ==
  /\ indexingLock' = indexingLock
  /\ currentIndexing' = currentIndexing
  /\ runs' = runs
  /\ pendingFullIndex' = pendingFullIndex
  /\ pendingEvents' = Append(pendingEvents, delivered'[Len(delivered')])
  /\ debounceTimer'

\* C19 (as stated): for every event, whatever its path, handleWatcherEvent
\* only appends to the buffer and arms the timer; it takes no lock and starts
\* no run.
C19_EventOnlyBuffers ==
  [][IsHandleWatcherEvent => OnlyBuffers]_vars

\* C19 (amended): that holds for source files and package.json; a
\* tsconfig.json event is not buffered, it calls fullIndex(): when the
\* coordinator is idle the call takes the lock and starts a full run, when a
\* run is in flight it sets the pending-full-index flag.
C19_BufferedUnlessTsconfig ==
  [][IsHandleWatcherEvent =>
       IF delivered'[Len(delivered')].kind # "tsconfig"
         THEN OnlyBuffers
         ELSE /\ pendingEvents' = pendingEvents
              /\ debounceTimer' = debounceTimer
              /\ IF indexingLock
                   THEN /\ runs' = runs
                        /\ pendingFullIndex'
                        /\ indexingLock' /\ currentIndexing' = currentIndexing
                   ELSE /\ Len(runs') = Len(runs) + 1
                        /\ runs'[Len(runs')].mode = "full"
                        /\ indexingLock' /\ currentIndexing' = Len(runs')
                        /\ pendingFullIndex' = pendingFullIndex]_vars

\* a package.json event was buffered while the coordinator was idle and a
\* tsconfig.json event then started a full run, the buffer untouched
C19_Witness ==
  /\ Len(delivered) = 2
  /\ delivered[1].kind = "package" /\ delivered[1].during = NoRun
  /\ delivered[2].kind = "tsconfig" /\ delivered[2].during = NoRun
  /\ pendingEvents = <<delivered[1]>>
  /\ boundariesRefresh
  /\ indexingLock
  /\ runs[currentIndexing].by = "tsconfig"

\* ------------------------------------------------------------------------
\* properties of shutdown (checked under ShutdownSpec)

\* no fullIndex(), incrementalIndex() or handleWatcherEvent() call was made
\* since shutdown() was called
NoCallSince ==
  Len(calls) = shutdown.calls /\ Len(delivered) = shutdown.delivered

\* C20: shutdown() leaves no timer armed and resolves only after the run it
\* awaited has finished; once it has resolved, and as long as no new call is
\* made, no run is in progress (the lock is free, currentIndexing is null) and
\* none is started, also when events were buffered or a full index was
\* pending while the awaited run was in flight.
C20_ShutdownStopsAll ==
  /\ (shutdown.st # "none" /\ NoCallSince) => ~debounceTimer
  /\ (shutdown.st = "resolved" /\ shutdown.awaits # NoRun)
       => runs[shutdown.awaits].st = "done"
  /\ (shutdown.st = "resolved" /\ NoCallSince)
       => /\ ~indexingLock
          /\ currentIndexing = NoRun
          /\ Running(runs) = {}


\* ------------------------------------------------------------------------
\* one CodeLedger instance, step by step: open(), the reader's promotion,
\* close(), onIndexed() and the facade methods

MaxCloseCalls == 2   \* close() calls, made by the caller or by a signal handler

\* the teardown statements of close(), in the order they are written
TeardownSteps ==
  <<"coordinator.shutdown", "watcher.close", "clearTimer", "release", "store.close">>

FacadeOps == {"searchSymbols", "searchRelations", "getDependencies", "getDependents",
              "getAffected", "hasCycle", "getStats", "reindex"}

\* open() has returned the instance
Returned == openPc.at = "returned" /\ ~openPc.threw

\* a catch block that rethrows without closing the store
openCatchLeak(st) == st

\* the catch block of open(): db.close(), then the error is rethrown
openCatch(st) == "closed"

\* a step of open() inside the try block throws
OpenThrows ==
  /\ openPc' = [openPc EXCEPT !.threw = TRUE]
  /\ store' = openCatch(store)

\* db.open(), before the try block
OpenStore(ok) ==
  /\ openPc = [at |-> "store", threw |-> FALSE]
  /\ IF ok
       THEN openPc' = [openPc EXCEPT !.at = "discover"] /\ store' = "open"
       ELSE openPc' = [openPc EXCEPT !.threw = TRUE] /\ store' = store
  /\ UNCHANGED <<role, closed, coordinator, watcher, timer, signalHandlers, owned,
                 closePc, promotePc, teardown, closeCalls, onIndexedCallbacks,
                 coordCallbacks, handles, unsubscribed, ledgerFanout, facadeLog>>
  /\ UNCHANGED <<coordVars, ownVars, indexVars, storeVars, graphVars, refreshVars,
                 resultVars>>

\* await _discoverProjectsFn(projectRoot)
Discover(ok) ==
  /\ openPc = [at |-> "discover", threw |-> FALSE]
  /\ IF ok
       THEN openPc' = [openPc EXCEPT !.at = "acquire"] /\ store' = store
       ELSE OpenThrows
  /\ UNCHANGED <<role, closed, coordinator, watcher, timer, signalHandlers, owned,
                 closePc, promotePc, teardown, closeCalls, onIndexedCallbacks,
                 coordCallbacks, handles, unsubscribed, ledgerFanout, facadeLog>>
  /\ UNCHANGED <<coordVars, ownVars, indexVars, storeVars, graphVars, refreshVars,
                 resultVars>>

\* _acquireWatcherRoleFn(db, pid) and the role-specific setup up to the next
\* await: an owner creates the watcher and the coordinator and calls
\* w.start(); a reader arms the healthcheck timer, registers the signal
\* handlers and is returned
Acquire(r, ok) ==
  /\ openPc = [at |-> "acquire", threw |-> FALSE]
  /\ IF ~ok
       THEN /\ OpenThrows
            /\ UNCHANGED <<role, coordinator, watcher, timer, signalHandlers, owned>>
       ELSE /\ store' = store
            /\ role' = r
            /\ IF r = "owner"
                 THEN /\ owned' = TRUE
                      /\ coordinator' = TRUE
                      /\ watcher' = TRUE
                      /\ openPc' = [openPc EXCEPT !.at = "watcherStart"]
                      /\ UNCHANGED <<timer, signalHandlers>>
                 ELSE /\ timer' = "healthcheck"
                      /\ signalHandlers' = TRUE
                      /\ openPc' = [openPc EXCEPT !.at = "returned"]
                      /\ UNCHANGED <<owned, coordinator, watcher>>
  /\ UNCHANGED <<closed, closePc, promotePc, teardown, closeCalls,
                 onIndexedCallbacks, coordCallbacks, handles, unsubscribed,
                 ledgerFanout, facadeLog>>
  /\ UNCHANGED <<coordVars, ownVars, indexVars, storeVars, graphVars, refreshVars,
                 resultVars>>

\* await w.start(...) of the owner; then the heartbeat timer is armed and
\* c.fullIndex() is called
StartWatcher(ok) ==
  /\ openPc = [at |-> "watcherStart", threw |-> FALSE]
  /\ IF ok
       THEN /\ timer' = "heartbeat"
            /\ openPc' = [openPc EXCEPT !.at = "fullIndex"]
            /\ store' = store
       ELSE OpenThrows /\ timer' = timer
  /\ UNCHANGED <<role, closed, coordinator, watcher, signalHandlers, owned,
                 closePc, promotePc, teardown, closeCalls, onIndexedCallbacks,
                 coordCallbacks, handles, unsubscribed, ledgerFanout, facadeLog>>
  /\ UNCHANGED <<coordVars, ownVars, indexVars, storeVars, graphVars, refreshVars,
                 resultVars>>

\* await c.fullIndex() of the owner; then the signal handlers are registered
\* and the instance is returned
InitialFullIndex(ok) ==
  /\ openPc = [at |-> "fullIndex", threw |-> FALSE]
  /\ IF ok
       THEN /\ signalHandlers' = TRUE
            /\ openPc' = [openPc EXCEPT !.at = "returned"]
            /\ store' = store
       ELSE OpenThrows /\ signalHandlers' = signalHandlers
  /\ UNCHANGED <<role, closed, coordinator, watcher, timer, owned,
                 closePc, promotePc, teardown, closeCalls, onIndexedCallbacks,
                 coordCallbacks, handles, unsubscribed, ledgerFanout, facadeLog>>
  /\ UNCHANGED <<coordVars, ownVars, indexVars, storeVars, graphVars, refreshVars,
                 resultVars>>

\* the reader's healthcheck callback finds the role free: the healthcheck
\* timer is cleared, the watcher and the coordinator are created and
\* assigned, the registered callbacks are forwarded, w.start() is called
PromoteBegins ==
  /\ Returned /\ timer = "healthcheck" /\ store = "open"
  /\ promotePc = "idle"
  /\ timer' = "null"
  /\ owned' = TRUE
  /\ coordinator' = TRUE
  /\ watcher' = TRUE
  /\ coordCallbacks' = forwardCallbacks(onIndexedCallbacks)
  /\ promotePc' = "watcherStart"
  /\ UNCHANGED <<openPc, store, role, closed, signalHandlers, closePc, teardown,
                 closeCalls, onIndexedCallbacks, handles, unsubscribed,
                 ledgerFanout, facadeLog>>
  /\ UNCHANGED <<coordVars, ownVars, indexVars, storeVars, graphVars, refreshVars,
                 resultVars>>

\* await w.start(...) of the promotion; then the heartbeat timer is armed and
\* c.fullIndex() is called.  A failure is caught and logged.
PromoteWatcherStart(ok) ==
  /\ promotePc = "watcherStart"
  /\ IF ok
       THEN timer' = "heartbeat" /\ promotePc' = "fullIndex"
       ELSE timer' = timer /\ promotePc' = "failed"
  /\ UNCHANGED <<openPc, store, role, closed, coordinator, watcher, signalHandlers,
                 owned, closePc, teardown, closeCalls, onIndexedCallbacks,
                 coordCallbacks, handles, unsubscribed, ledgerFanout, facadeLog>>
  /\ UNCHANGED <<coordVars, ownVars, indexVars, storeVars, graphVars, refreshVars,
                 resultVars>>

\* await c.fullIndex() of the promotion: a resolved run invokes the
\* coordinator's callbacks
PromoteFullIndex(ok) ==
  /\ promotePc = "fullIndex"
  /\ ok => store = "open"
  /\ promotePc' = IF ok THEN "done" ELSE "failed"
  /\ ledgerFanout' = IF ok
                       THEN [fired |-> coordCallbacks,
                             late |-> coordCallbacks \cap unsubscribed]
                       ELSE ledgerFanout
  /\ UNCHANGED <<openPc, store, role, closed, coordinator, watcher, timer,
                 signalHandlers, owned, closePc, teardown, closeCalls,
                 onIndexedCallbacks, coordCallbacks, handles, unsubscribed,
                 facadeLog>>
  /\ UNCHANGED <<coordVars, ownVars, indexVars, storeVars, graphVars, refreshVars,
                 resultVars>>

\* a guard that lets every call through
alreadyClosedNever(flag) == FALSE

\* if (this._closed) return
alreadyClosed(flag) == flag

\* close() from the statement `from` up to its next await or its end; s holds
\* the fields close() reads and writes
closeSteps(from, s) ==
  IF from = "shutdown" /\ s.coordinator
  THEN [s EXCEPT !.teardown = Append(@, "coordinator.shutdown"), !.pc = "shutdown"]
  ELSE IF from \in {"shutdown", "watcher"} /\ s.watcher
  THEN [s EXCEPT !.teardown = Append(@, "watcher.close"), !.pc = "watcher"]
  ELSE [s EXCEPT !.teardown = (IF s.timer # "null" THEN Append(@, "clearTimer") ELSE @)
                                \o <<"release", "store.close">>,
                 !.timer = "null", !.owned = FALSE, !.store = "closed",
                 !.pc = "done"]

CloseFields ==
  [coordinator |-> coordinator, watcher |-> watcher, timer |-> timer,
   owned |-> owned, store |-> store, teardown |-> teardown, pc |-> closePc]

CloseContinues(from) ==
  LET s == closeSteps(from, CloseFields) IN
    /\ timer' = s.timer
    /\ owned' = s.owned
    /\ store' = s.store
    /\ teardown' = s.teardown
    /\ closePc' = s.pc

\* close(), called by the caller or by a registered signal handler, up to
\* its first await
CloseCall(by) ==
  /\ Returned
  /\ Len(closeCalls) < MaxCloseCalls
  /\ by = "signal" => signalHandlers
  /\ closeCalls' = Append(closeCalls, by)
  /\ IF alreadyClosed(closed)
       THEN UNCHANGED <<closed, signalHandlers, timer, owned, store, teardown, closePc>>
       ELSE /\ closed' = TRUE
            /\ signalHandlers' = FALSE
            /\ CloseContinues("shutdown")
  /\ UNCHANGED <<openPc, role, coordinator, watcher, promotePc, onIndexedCallbacks,
                 coordCallbacks, handles, unsubscribed, ledgerFanout, facadeLog>>
  /\ UNCHANGED <<coordVars, ownVars, indexVars, storeVars, graphVars, refreshVars,
                 resultVars>>

\* await this.coordinator.shutdown() settles, once the run in flight has
\* settled: it rejects when the run it awaited was rejected, and close()
\* rejects with it
CloseShutdownSettles(ok) ==
  /\ closePc = "shutdown"
  /\ promotePc # "fullIndex"
  /\ IF ok
       THEN CloseContinues("watcher")
       ELSE /\ closePc' = "shutdownRejected"
            /\ UNCHANGED <<timer, owned, store, teardown>>
  /\ UNCHANGED <<openPc, role, closed, coordinator, watcher, signalHandlers,
                 promotePc, closeCalls, onIndexedCallbacks, coordCallbacks, handles,
                 unsubscribed, ledgerFanout, facadeLog>>
  /\ UNCHANGED <<coordVars, ownVars, indexVars, storeVars, graphVars, refreshVars,
                 resultVars>>

\* await this.watcher.close() settles; a rejection rejects close()
CloseWatcherSettles(ok) ==
  /\ closePc = "watcher"
  /\ IF ok
       THEN CloseContinues("timer")
       ELSE /\ closePc' = "watcherRejected"
            /\ UNCHANGED <<timer, owned, store, teardown>>
  /\ UNCHANGED <<openPc, role, closed, coordinator, watcher, signalHandlers,
                 promotePc, closeCalls, onIndexedCallbacks, coordCallbacks, handles,
                 unsubscribed, ledgerFanout, facadeLog>>
  /\ UNCHANGED <<coordVars, ownVars, indexVars, storeVars, graphVars, refreshVars,
                 resultVars>>

\* CodeLedger.onIndexed(callback) for a callback not registered at the
\* moment: without a coordinator the returned function removes the callback
\* from _onIndexedCallbacks only, with one it also calls the coordinator's
\* unsubscribe
SubscribeIndexed(cb) ==
  /\ Returned
  /\ cb \notin onIndexedCallbacks
  /\ onIndexedCallbacks' = onIndexedCallbacks \cup {cb}
  /\ coordCallbacks' = IF coordinator THEN coordCallbacks \cup {cb} ELSE coordCallbacks
  /\ handles' = [handles EXCEPT ![cb] = IF coordinator THEN "both" ELSE "facade"]
  /\ unsubscribed' = unsubscribed \ {cb}
  /\ UNCHANGED <<openPc, store, role, closed, coordinator, watcher, timer,
                 signalHandlers, owned, closePc, promotePc, teardown, closeCalls,
                 ledgerFanout, facadeLog>>
  /\ UNCHANGED <<coordVars, ownVars, indexVars, storeVars, graphVars, refreshVars,
                 resultVars>>

\* the function onIndexed(callback) returned is called
UnsubscribeIndexed(cb) ==
  /\ handles[cb] # "none"
  /\ cb \in onIndexedCallbacks
  /\ onIndexedCallbacks' = onIndexedCallbacks \ {cb}
  /\ coordCallbacks' = IF handles[cb] = "both" THEN coordCallbacks \ {cb}
                       ELSE coordCallbacks
  /\ unsubscribed' = unsubscribed \cup {cb}
  /\ UNCHANGED <<openPc, store, role, closed, coordinator, watcher, timer,
                 signalHandlers, owned, closePc, promotePc, teardown, closeCalls,
                 handles, ledgerFanout, facadeLog>>
  /\ UNCHANGED <<coordVars, ownVars, indexVars, storeVars, graphVars, refreshVars,
                 resultVars>>

\* an indexing run of this.coordinator after startup (a watcher batch or a
\* reindex()) resolves and invokes the coordinator's callbacks
IndexingRunCompletes ==
  /\ Returned /\ coordinator /\ store = "open"
  /\ promotePc \in {"idle", "done"}
  /\ ledgerFanout' = [fired |-> coordCallbacks,
                      late |-> coordCallbacks \cap unsubscribed]
  /\ UNCHANGED <<openPc, store, role, closed, coordinator, watcher, timer,
                 signalHandlers, owned, closePc, promotePc, teardown, closeCalls,
                 onIndexedCallbacks, coordCallbacks, handles, unsubscribed,
                 facadeLog>>
  /\ UNCHANGED <<coordVars, ownVars, indexVars, storeVars, graphVars, refreshVars,
                 resultVars>>

\* how a facade method ends: searchSymbols and searchRelations test _closed,
\* reindex tests this.coordinator, the others test nothing and go on to the
\* repository or the search function
facadeOutcome(op, flag, coord) ==
  IF op \in {"searchSymbols", "searchRelations"}
  THEN IF flag THEN "usage error" ELSE "delegated"
  ELSE IF op = "reindex"
  THEN IF ~coord THEN "usage error" ELSE "delegated"
  ELSE "delegated"

\* a facade method is called on the instance
FacadeCall(op) ==
  /\ Returned
  /\ facadeLog' = [op |-> op, closed |-> closed, closePc |-> closePc,
                   outcome |-> facadeOutcome(op, closed, coordinator)]
  /\ UNCHANGED <<openPc, store, role, closed, coordinator, watcher, timer,
                 signalHandlers, owned, closePc, promotePc, teardown, closeCalls,
                 onIndexedCallbacks, coordCallbacks, handles, unsubscribed,
                 ledgerFanout>>
  /\ UNCHANGED <<coordVars, ownVars, indexVars, storeVars, graphVars, refreshVars,
                 resultVars>>

LedgerNext ==
  \/ \E ok \in BOOLEAN : OpenStore(ok)
  \/ \E ok \in BOOLEAN : Discover(ok)
  \/ \E r \in {"owner", "reader"} : \E ok \in BOOLEAN : Acquire(r, ok)
  \/ \E ok \in BOOLEAN : StartWatcher(ok)
  \/ \E ok \in BOOLEAN : InitialFullIndex(ok)
  \/ PromoteBegins
  \/ \E ok \in BOOLEAN : PromoteWatcherStart(ok)
  \/ \E ok \in BOOLEAN : PromoteFullIndex(ok)
  \/ \E by \in {"caller", "signal"} : CloseCall(by)
  \/ \E ok \in BOOLEAN : CloseShutdownSettles(ok)
  \/ \E ok \in BOOLEAN : CloseWatcherSettles(ok)
  \/ \E cb \in Subscribers : SubscribeIndexed(cb)
  \/ \E cb \in Subscribers : UnsubscribeIndexed(cb)
  \/ IndexingRunCompletes
  \/ \E op \in FacadeOps : FacadeCall(op)

LedgerSpec == Init /\ [][LedgerNext]_vars


\* ------------------------------------------------------------------------
\* properties of the CodeLedger instance (checked under LedgerSpec)

\* the place of a teardown step in the order of close()'s statements
Rank(step) == CHOOSE i \in DOMAIN TeardownSteps : TeardownSteps[i] = step

\* C21: however many times close() is called, by the caller or by a signal
\* handler, each teardown step is performed at most once, and the steps
\* performed come in the order coordinator.shutdown, watcher.close, clear
\* the timer, release ownership, close the store.
C21_TeardownOnceInOrder ==
  /\ \A i, j \in DOMAIN teardown : i < j => Rank(teardown[i]) < Rank(teardown[j])
  /\ closePc = "done"
       => /\ Len(teardown) >= 2
          /\ SubSeq(teardown, Len(teardown) - 1, Len(teardown)) = <<"release", "store.close">>

\* close() was called by a signal handler and then by the caller, and the
\* owner's teardown ran through all five steps, once
C21_Witness ==
  /\ closeCalls = <<"signal", "caller">>
  /\ closePc = "done"
  /\ teardown = TeardownSteps

\* C22: when this.watcher.close() fails during close(), close() rejects
\* and the watcher_owner row of this pid has been deleted.
C22_WatcherFailureStillReleases ==
  closePc = "watcherRejected" => ~owned

\* C23: when a step of open() after db.open() throws (project discovery,
\* role acquisition, watcher start, initial full index), the store is
\* closed when the error reaches the caller.
C23_OpenFailureClosesStore ==
  (openPc.threw /\ openPc.at # "store") => store = "closed"

\* the owner's w.start() threw during open() and the store was closed
C23_Witness ==
  /\ openPc = [at |-> "watcherStart", threw |-> TRUE]
  /\ role = "owner"
  /\ store = "closed"

\* C24: a callback whose unsubscribe function has been called is invoked by
\* no later indexing run, also when it was registered on a reader and
\* unsubscribed after the promotion forwarded it to the new coordinator.
C24_UnsubscribedNeverInvoked ==
  ledgerFanout.late = {}

\* C25: after close(), searchSymbols, searchRelations, getDependencies,
\* getDependents, getAffected, hasCycle, getStats and reindex fail with a
\* usage error and do not reach the store or the coordinator.
C25_ClosedFacadeRejects ==
  (facadeLog.op \in FacadeOps /\ facadeLog.closed /\ facadeLog.closePc = "done")
    => facadeLog.outcome = "usage error"


\* ------------------------------------------------------------------------
\* the DbConnection: open() with its corruption recovery, and transaction(fn)
\* with the statements of fn as steps

MaxOpenAttempts == 3   \* executions of open() within one open() call
MaxTxDepth == 2        \* transaction(fn) calls nested in one another

\* the rows a statement can insert
RowIds == {1, 2, 3}

\* what fn returns, and what it throws
ReturnValues == {"v1", "v2"}

Errors == {"e1", "e2"}

\* how an attempt to open the file and migrate it ends; the first two are
\* errors, "corrupt" one that _isCorruptionError recognises
AttemptOutcomes == {"ok", "corrupt", "other"}

\* _isCorruptionError(err)
isCorruptionError(outcome) == outcome = "corrupt"

\* one execution of the body of open(): the attempt ends with `outcome`;
\* `exists` is what existsSync(dbPath) answers in the catch block.  On a
\* corruption error with the file present the files are unlinked and open()
\* is executed again, by the recursive call of line 64; every other error
\* is thrown as a StoreError through all the executions in progress.
OpenAttempt(outcome, exists) ==
  /\ openCall.st \in {"none", "running"}
  /\ openCall.attempts < MaxOpenAttempts
  /\ IF outcome = "ok"
       THEN /\ client' = TRUE
            /\ openCall' = [openCall EXCEPT !.st = "returned", !.attempts = @ + 1]
       ELSE IF isCorruptionError(outcome) /\ exists
       THEN /\ client' = FALSE
            /\ openCall' = [openCall EXCEPT !.st = "running", !.attempts = @ + 1,
                                            !.unlinks = @ + 1]
       ELSE /\ client' = client
            /\ openCall' = [openCall EXCEPT !.st = "threw", !.attempts = @ + 1,
                                            !.cause = outcome]
  /\ UNCHANGED <<tableRows, txDepth, savepoints, txResult, relTable, lastReplace>>
  /\ UNCHANGED <<coordVars, ownVars, indexVars, ledgerVars, graphVars, refreshVars,
                 resultVars>>

\* the database as it is on disk: the working state outside a transaction,
\* the state at BEGIN inside one
Durable(depth, sps, current) == IF depth = 0 THEN current ELSE sps[1]

\* a rollback that leaves the database as it is
rollbackKeeps(saved, current) == current

\* ROLLBACK of the outermost transaction, ROLLBACK TO SAVEPOINT of a nested
\* one: the database is what it was at BEGIN / at SAVEPOINT
rollback(saved, current) == saved

\* how the latest transaction(fn) call made by the innermost fn itself ended,
\* "none" when that fn has not completed one as its latest call
InnerOutcome == IF txResult.level = txDepth + 1 THEN txResult.outcome ELSE "none"

\* transaction(fn) is called, up to the call of fn: BEGIN at depth 0,
\* SAVEPOINT sp_<depth> inside a transaction
TransactionCall ==
  /\ client
  /\ txDepth < MaxTxDepth
  /\ txDepth' = txDepth + 1
  /\ savepoints' = Append(savepoints, tableRows)
  /\ UNCHANGED <<client, openCall, tableRows, txResult, relTable, lastReplace>>
  /\ UNCHANGED <<coordVars, ownVars, indexVars, ledgerVars, graphVars, refreshVars,
                 resultVars>>

\* a statement inserts a row: inside fn at the innermost level, or on its own
\* outside a transaction
Insert(w) ==
  /\ client
  /\ w \notin tableRows
  /\ tableRows' = tableRows \cup {w}
  /\ UNCHANGED <<client, openCall, txDepth, savepoints, txResult, relTable, lastReplace>>
  /\ UNCHANGED <<coordVars, ownVars, indexVars, ledgerVars, graphVars, refreshVars,
                 resultVars>>

\* the innermost fn returns v: COMMIT / RELEASE SAVEPOINT, txDepth--, and
\* transaction(fn) returns what fn returned
FnReturns(v) ==
  /\ txDepth > 0
  /\ txDepth' = txDepth - 1
  /\ savepoints' = SubSeq(savepoints, 1, txDepth - 1)
  /\ tableRows' = tableRows
  /\ txResult' = [level |-> txDepth, outcome |-> "returned", passed |-> v, got |-> v,
                  begin |-> savepoints[txDepth], before |-> tableRows,
                  after |-> tableRows', depthAfter |-> txDepth',
                  durable |-> Durable(txDepth', savepoints', tableRows'),
                  inner |-> InnerOutcome]
  /\ UNCHANGED <<client, openCall, relTable, lastReplace>>
  /\ UNCHANGED <<coordVars, ownVars, indexVars, ledgerVars, graphVars, refreshVars,
                 resultVars>>

\* the innermost fn throws e (an error of its own, or one that came out of a
\* nested transaction and was not caught): ROLLBACK / ROLLBACK TO SAVEPOINT
\* and RELEASE, txDepth--, and transaction(fn) throws the same error
FnThrows(e) ==
  /\ txDepth > 0
  /\ txDepth' = txDepth - 1
  /\ savepoints' = SubSeq(savepoints, 1, txDepth - 1)
  /\ tableRows' = rollback(savepoints[txDepth], tableRows)
  /\ txResult' = [level |-> txDepth, outcome |-> "threw", passed |-> e, got |-> e,
                  begin |-> savepoints[txDepth], before |-> tableRows,
                  after |-> tableRows', depthAfter |-> txDepth',
                  durable |-> Durable(txDepth', savepoints', tableRows'),
                  inner |-> InnerOutcome]
  /\ UNCHANGED <<client, openCall, relTable, lastReplace>>
  /\ UNCHANGED <<coordVars, ownVars, indexVars, ledgerVars, graphVars, refreshVars,
                 resultVars>>

StoreNext ==
  \/ \E outcome \in AttemptOutcomes : \E exists \in BOOLEAN : OpenAttempt(outcome, exists)
  \/ TransactionCall
  \/ \E w \in RowIds : Insert(w)
  \/ \E v \in ReturnValues : FnReturns(v)
  \/ \E e \in Errors : FnThrows(e)

StoreSpec == Init /\ [][StoreNext]_vars

\* ------------------------------------------------------------------------
\* properties of the DbConnection (checked under StoreSpec)

\* C26: when fn throws, transaction(fn) throws the same error and the
\* database is what it was when the call began; for a nested call that
\* leaves the enclosing transaction open, with the writes it made before
\* the nested call and nothing durable yet.  When fn returns,
\* transaction(fn) returns fn's value and the writes stay; they are durable
\* exactly when the outermost transaction has committed.
C26_TransactionRollsBack ==
  /\ txResult.outcome = "threw"
       => /\ txResult.after = txResult.begin
          /\ txResult.got = txResult.passed
          /\ txResult.depthAfter = txResult.level - 1
  /\ txResult.outcome = "returned"
       => /\ txResult.after = txResult.before
          /\ txResult.got = txResult.passed
          /\ txResult.depthAfter = txResult.level - 1
  /\ (txResult.outcome = "returned" /\ txResult.level = 1)
       => txResult.durable = txResult.before
  /\ (txResult.outcome # "none" /\ txResult.level > 1)
       => txResult.durable \subseteq txResult.begin

\* row 1 was written in the outer transaction and row 2 in a nested one that
\* threw: row 2 was undone and row 1 kept; the outer transaction then
\* returned, and row 1 alone is durable
C26_Witness ==
  /\ txResult.outcome = "returned"
  /\ txResult.level = 1
  /\ txResult.inner = "threw"
  /\ txResult.begin = {}
  /\ txResult.durable = {1}
  /\ tableRows = {1}
  /\ txDepth = 0

\* C27: on a corruption error open() deletes the database files and runs
\* open once more, and never a second time: an open() call deletes the
\* files at most once and makes at most two attempts; when the second
\* attempt fails, also with a corruption error, open() throws a StoreError.
C27_RetriesExactlyOnce ==
  /\ openCall.unlinks <= 1
  /\ openCall.attempts <= 2


\* ------------------------------------------------------------------------
\* an incremental run in which the indexing of one file throws after the
\* file was read and parsed

\* the statements of _processFile that can throw after the file row is
\* written
FaultPoints == {"symbols", "relations"}

\* _processFile up to the statement that throws: at "symbols" indexFileSymbols
\* throws, the file row is written and the symbol rows are not replaced; at
\* "relations" indexFileRelations throws, the file row and the symbol rows are
\* written and the relations are not replaced
processFileUpTo(db, dsk, bs, path, at) ==
  LET done == processFile(db, dsk, bs, path)
  IN [files |-> done.files,
      symbols |-> IF at = "symbols" THEN db.symbols ELSE done.symbols,
      relations |-> db.relations]

\* _doIndex(events, false) when the indexing of `path` throws at `at`: the
\* error is caught by processChanged, the path goes to failedFiles and the
\* run goes on
faultyIndex(db, dsk, bs, changed, deleted, path, at) ==
  LET deletedSymbols == snapshot(db, bs, deleted)
      applied == processChanged(processDeleted(db, bs, deleted), dsk, bs,
                                changed \ {path})
      partial == processFileUpTo(applied.db, dsk, bs, path, at)
      moved == retargetMoved([db |-> partial, retargets |-> {}], deletedSymbols, bs)
  IN [db |-> moved.db, failedFiles |-> applied.failedFiles \cup {path},
      outcome |-> "resolved", retargets |-> moved.retargets]

\* incrementalIndex() with a changed file whose symbol or relation indexer
\* throws
IncrementalFaultRun(path, at) ==
  /\ Len(indexLog) < MaxRuns
  /\ LET det == detectChanges(disk, existingMap(Db, boundaries))
         res == faultyIndex(Db, disk, boundaries, det.changed, det.deleted, path, at)
     IN /\ path \in det.changed
        /\ ~throws(disk, path)
        /\ Persist(res)
        /\ indexLog' = Logged("incremental", det.changed, det.deleted, res)
  /\ UNCHANGED <<disk, dclock, boundaries, watched>>
  /\ UNCHANGED <<coordVars, ownVars, ledgerVars, storeVars, graphVars, refreshVars,
                 resultVars>>

FaultNext ==
  \/ \E path \in Paths, text \in Written : DiskWrite(path, text)
  \/ FullIndexRun
  \/ IncrementalDetectRun
  \/ \E path \in Paths, at \in FaultPoints : IncrementalFaultRun(path, at)

FaultSpec == IndexOpenInit /\ [][FaultNext]_vars

\* C28: after every indexing run, one with per-file failures included, every
\* file the run indexed has a file row, and every symbol row belongs to a file
\* row with the same contentHash: no file row carries a newer contentHash
\* than the symbol rows of its file.
C28_FileAndSymbolHashesAgree ==
  /\ \A s \in dbSymbols :
       /\ dbFiles[<<s.project, s.filePath>>] # NoRec
       /\ dbFiles[<<s.project, s.filePath>>].contentHash = s.contentHash
  /\ \A i \in DOMAIN indexLog :
       \A path \in indexLog[i].changed \ indexLog[i].failedFiles :
         indexLog[i].outcome = "resolved"
           => indexLog[i].after.files[<<resolveFileProject(path, indexLog[i].boundaries),
                                        path>>] # NoRec


\* ------------------------------------------------------------------------
\* the RelationRepository over a relations table; the files a.ts and b.ts
\* have file rows in every project, so that the foreign key of a relation
\* row is satisfied

\* rel.srcFilePath is undefined
Absent == "absent"

SrcFiles == {"a.ts", "b.ts"}

\* the Partial<RelationRecord> values a caller passes
RelRecords == [srcFilePath : SrcFiles \cup {Absent}, dstFilePath : {"c.ts"}]

\* the values of the INSERT: project is the argument, srcFilePath is
\* rel.srcFilePath ?? srcFilePath
insertValues(project, srcFilePath, rel) ==
  [project |-> project,
   srcFilePath |-> IF rel.srcFilePath # Absent THEN rel.srcFilePath ELSE srcFilePath,
   dstFilePath |-> rel.dstFilePath]

\* a table row: the stored values, and as history the srcFilePath argument of
\* the call that wrote it and whether that call is the latest for its
\* (project, srcFilePath)
tableRow(values, via, fresh) ==
  [project |-> values.project, srcFilePath |-> values.srcFilePath,
   dstFilePath |-> values.dstFilePath, via |-> via, fresh |-> fresh]

\* replaceFileRelations(project, srcFilePath, rels): DELETE WHERE project = ?
\* AND src_file_path = ?, then one INSERT per rel
replaceFileRelations(table, project, srcFilePath, rels) ==
  LET kept == {t \in table : ~(t.project = project /\ t.srcFilePath = srcFilePath)}
      aged == {[t EXCEPT !.fresh = @ /\ ~(t.project = project /\ t.via = srcFilePath)] :
                 t \in kept}
  IN aged \cup {tableRow(insertValues(project, srcFilePath, rel), srcFilePath, TRUE) :
                  rel \in rels}

\* getOutgoing(project, srcFilePath): SELECT ... WHERE project = ? AND
\* src_file_path = ?
getOutgoing(table, project, srcFilePath) ==
  {[project |-> t.project, srcFilePath |-> t.srcFilePath, dstFilePath |-> t.dstFilePath] :
     t \in {u \in table : u.project = project /\ u.srcFilePath = srcFilePath}}

\* replaceFileRelations(project, srcFilePath, rels), then getOutgoing(project,
\* srcFilePath) with no write in between
ReplaceFileRelations(project, srcFilePath, rels) ==
  /\ relTable' = replaceFileRelations(relTable, project, srcFilePath, rels)
  /\ lastReplace' = [project |-> project, srcFilePath |-> srcFilePath, rels |-> rels,
                     outgoing |-> getOutgoing(relTable', project, srcFilePath)]
  /\ UNCHANGED <<client, openCall, tableRows, txDepth, savepoints, txResult>>
  /\ UNCHANGED <<coordVars, ownVars, indexVars, ledgerVars, graphVars, refreshVars,
                 resultVars>>

RelationNext ==
  \E project \in Projects, srcFilePath \in SrcFiles, rels \in SUBSET RelRecords :
    ReplaceFileRelations(project, srcFilePath, rels)

RelationSpec == Init /\ [][RelationNext]_vars

\* C29: right after replaceFileRelations(P, F, R), getOutgoing(P, F) is the set
\* of relations written for R, whatever srcFilePath the rows of R carry, and
\* the table holds no relation written by an earlier replaceFileRelations
\* call for (P, F).
C29_OutgoingIsLastWritten ==
  lastReplace.project \in Projects
    => /\ Cardinality(lastReplace.outgoing) = Cardinality({rel.dstFilePath : rel \in lastReplace.rels})
       /\ {o.dstFilePath : o \in lastReplace.outgoing}
            = {rel.dstFilePath : rel \in lastReplace.rels}
       /\ \A t \in relTable :
            (t.project = lastReplace.project /\ t.via = lastReplace.srcFilePath)
              => t.fresh


\* ------------------------------------------------------------------------
\* the DependencyGraph (search/dependency-graph.ts, from its algorithm in
\* PLAN.md 14.3)

GraphFiles == {"a.ts", "b.ts", "c.ts"}

\* the graphs build() can load: any set of imports edges src -> dst, a file
\* that imports itself and import cycles included
Graphs == SUBSET (GraphFiles \X GraphFiles)

\* the elements of a set in some order, as iterating a Set gives them
RECURSIVE inOrder(_)
inOrder(S) ==
  IF S = {} THEN <<>>
  ELSE LET x == CHOOSE y \in S : TRUE IN <<x>> \o inOrder(S \ {x})

\* reverseAdjacencyList.get(file): the files that import `file`
reverseAdjacency(edges, file) == {e[1] : e \in {x \in edges : x[2] = file}}

\* the while loop of getTransitiveDependents: take the head of the queue, add
\* each of its dependents that is not in visited to visited and to the queue
RECURSIVE bfs(_, _, _)
bfs(edges, queue, visited) ==
  IF queue = <<>> THEN visited
  ELSE LET found == reverseAdjacency(edges, Head(queue)) \ visited
       IN bfs(edges, Tail(queue) \o inOrder(found), visited \cup found)

\* getTransitiveDependents(filePath): visited = {}, queue = [filePath]
getTransitiveDependents(edges, filePath) == bfs(edges, <<filePath>>, {})

\* a graph was built from the stored imports relations
GraphInit ==
  /\ importEdges \in Graphs
  /\ dependentsQuery = NoQuery

GraphOpenInit ==
  /\ CoordInit /\ OwnInit /\ IndexInit /\ LedgerInit /\ StoreInit /\ GraphInit
  /\ RefreshIdle /\ ResultIdle

\* getTransitiveDependents(filePath) is called on the built graph
GetTransitiveDependents(filePath) ==
  /\ dependentsQuery' = [filePath |-> filePath,
                         result |-> getTransitiveDependents(importEdges, filePath)]
  /\ UNCHANGED importEdges
  /\ UNCHANGED <<coordVars, ownVars, indexVars, ledgerVars, storeVars, refreshVars,
                 resultVars>>

GraphNext == \E filePath \in GraphFiles : GetTransitiveDependents(filePath)

GraphSpec == GraphOpenInit /\ [][GraphNext]_vars

\* the files from which `to` is reachable through one or more imports edges
Importers(edges, to) ==
  {from \in GraphFiles :
     \E n \in 1..Cardinality(GraphFiles) :
       \E walk \in [0..n -> GraphFiles] :
         /\ walk[0] = from
         /\ walk[n] = to
         /\ \A i \in 0..(n - 1) : <<walk[i], walk[i + 1]>> \in edges}

\* C30: getTransitiveDependents(path) is exactly the set of files from which
\* path is reachable through one or more imports edges, and never contains
\* path itself, also when path lies on an import cycle.
C30_TransitiveDependentsExcludeInput ==
  dependentsQuery.filePath \in GraphFiles
    => /\ dependentsQuery.result
            = Importers(importEdges, dependentsQuery.filePath) \ {dependentsQuery.filePath}
       /\ dependentsQuery.filePath \notin dependentsQuery.result


\* ========================================================================
\* incrementalIndex(events) with an event list of the caller's

\* the event list a caller passes: one source-file event of its own, told
\* from the watcher's events by an id below zero
callerEvents(n, during) ==
  <<[id |-> 0 - n, kind |-> "src", win |-> 0, during |-> during]>>

\* incrementalIndex(events): _startIndex(events, false)
IncrementalIndexEvents ==
  /\ Len(calls) < MaxCalls
  /\ LET during == IF indexingLock THEN currentIndexing ELSE NoRun
         events == callerEvents(Len(calls) + 1, during)
         s == startIndex(indexingLock, currentIndexing, pendingFullIndex, runs,
                         pendingEvents, events, TRUE, FALSE, "call")
     IN /\ indexingLock' = s.lock
        /\ currentIndexing' = s.cur
        /\ pendingFullIndex' = s.pf
        /\ runs' = s.rs
        /\ calls' = Append(calls, [op |-> "incrementalIndex(events)",
                                   during |-> during,
                                   ret |-> s.ret, started |-> s.started,
                                   pfAfter |-> s.pf, events |-> events])
  /\ UNCHANGED <<pendingEvents, debounceTimer, delivered, epoch, winFired>>
  /\ BusyAfter
  /\ WaiterAfter
  /\ UNCHANGED <<callbacks, fanout, boundariesRefresh, shutdown>>
  /\ UNCHANGED <<ownVars, indexVars, ledgerVars, storeVars, graphVars, refreshVars,
                 resultVars>>

\* the coordinator under the watcher's events and calls that bring their own
ExplicitNext ==
  \/ IncrementalIndexEvents
  \/ \E kind \in EventKinds : HandleWatcherEvent(kind)
  \/ TimerFire
  \/ \E r \in DOMAIN runs : \E outcome \in {"resolved", "rejected"} : RunSettle(r, outcome)
  \/ \E r \in DOMAIN runs : Finalize(r)

ExplicitSpec == Init /\ [][ExplicitNext]_vars

\* nothing is running, queued, buffered or armed
Quiescent ==
  /\ ~indexingLock
  /\ ~pendingFullIndex
  /\ pendingEvents = <<>>
  /\ ~debounceTimer

\* C31: incrementalIndex(events) called while a run is in progress returns
\* the promise of that run, and once the coordinator has come to rest the
\* events of the call have been given to a run that started after the run
\* that was in flight.
C31_ExplicitEventsNotDropped ==
  \A i \in DOMAIN calls :
    (calls[i].op = "incrementalIndex(events)" /\ calls[i].during # NoRun) =>
      /\ calls[i].ret = calls[i].during
      /\ Quiescent =>
           \E r \in DOMAIN runs :
             /\ r > calls[i].during
             /\ \A k \in DOMAIN calls[i].events :
                  InSeq(calls[i].events[k], runs[r].events)


\* ========================================================================
\* move tracking and the files a run touched (checked under IndexSpec)

\* C32: every retargetRelations call of a run names, as the new home of the
\* symbol, a file the same run created or changed; a deleted symbol whose
\* only match lives in a file the run did not touch is not retargeted.
C32_RetargetOnlyIntoTouchedFiles ==
  \A i \in 1..Len(indexLog) :
    \A c \in indexLog[i].retargets :
      c.newFile \in indexLog[i].changed


\* ========================================================================
\* the boundaries refresh, promise by promise.  The promise of the
\* discovery an event starts is named by the position of the event in
\* `delivered`, and the boundaries it finds by the same number.

WatchedKinds == {"src", "package"}

\* _doIndex reads this.boundariesRefresh before its first await: the run
\* that starts in this step awaits the promise stored now
AwaitingAfter ==
  awaiting' = IF Len(runs') > Len(runs) /\ refreshPromise # 0
                THEN refreshPromise ELSE awaiting

\* handleWatcherEvent(event): a package.json event calls discover() and
\* stores discover(...).then(b => { this.opts.boundaries = b }) over
\* whatever the field held
WatcherEvent(kind) ==
  /\ handleWatcherEvent(kind)
  /\ discoveries' = Append(discoveries, IF kind = "package" THEN "pending" ELSE "none")
  /\ refreshPromise' = IF kind = "package" THEN Len(delivered) + 1 ELSE refreshPromise
  /\ UNCHANGED <<optsBoundaries, awaiting, refreshLog>>
  /\ UNCHANGED <<ownVars, indexVars, ledgerVars, storeVars, graphVars, resultVars>>

\* a discovery settles, in whatever order the file system answers: resolved,
\* its .then() assigns this.opts.boundaries; rejected, the .then() is skipped
\* and the stored promise is rejected
DiscoverySettles(d, ok) ==
  /\ d \in DOMAIN discoveries
  /\ discoveries[d] = "pending"
  /\ discoveries' = [discoveries EXCEPT ![d] = IF ok THEN "resolved" ELSE "rejected"]
  /\ optsBoundaries' = IF ok THEN d ELSE optsBoundaries
  /\ UNCHANGED <<refreshPromise, awaiting, refreshLog>>
  /\ UNCHANGED <<coordVars, ownVars, indexVars, ledgerVars, storeVars, graphVars,
                 resultVars>>

\* the debounce timer fires
RefreshTimerFire ==
  /\ debounceTimerFires
  /\ AwaitingAfter
  /\ UNCHANGED <<discoveries, optsBoundaries, refreshPromise, refreshLog>>
  /\ UNCHANGED <<ownVars, indexVars, ledgerVars, storeVars, graphVars, resultVars>>

\* the .finally() block of the settled run
RefreshFinalize(r) ==
  /\ runFinally(r)
  /\ AwaitingAfter
  /\ UNCHANGED <<discoveries, optsBoundaries, refreshPromise, refreshLog>>
  /\ UNCHANGED <<ownVars, indexVars, ledgerVars, storeVars, graphVars, resultVars>>

\* `await this.boundariesRefresh` ends.  On a resolved promise _doIndex goes
\* on with `this.boundariesRefresh = null` and reads this.opts.boundaries; on
\* a rejected one the await throws, the assignment is not reached and
\* _doIndex rejects.
AwaitSettles(r) ==
  /\ r \in DOMAIN runs
  /\ refreshWaiter = r
  /\ runs[r].st = "running"
  /\ discoveries[awaiting] # "pending"
  /\ IF discoveries[awaiting] = "resolved"
       THEN /\ boundariesRefresh' = FALSE
            /\ refreshPromise' = 0
            /\ UNCHANGED runs
       ELSE /\ runs' = [runs EXCEPT ![r].st = "settled", ![r].indexed = "rejected",
                                    ![r].outcome = "rejected"]
            /\ UNCHANGED <<boundariesRefresh, refreshPromise>>
  /\ refreshWaiter' = NoRun
  /\ awaiting' = 0
  /\ refreshLog' = Append(refreshLog, [run |-> r, promise |-> awaiting,
                                       outcome |-> discoveries[awaiting],
                                       boundaries |-> optsBoundaries])
  /\ UNCHANGED <<indexingLock, pendingEvents, debounceTimer, currentIndexing,
                 pendingFullIndex, delivered, calls, epoch, winBusy, winFired,
                 callbacks, fanout, shutdown>>
  /\ UNCHANGED <<discoveries, optsBoundaries>>
  /\ UNCHANGED <<ownVars, indexVars, ledgerVars, storeVars, graphVars, resultVars>>

RefreshNext ==
  \/ \E kind \in WatchedKinds : WatcherEvent(kind)
  \/ \E d \in DOMAIN discoveries : \E ok \in BOOLEAN : DiscoverySettles(d, ok)
  \/ RefreshTimerFire
  \/ \E r \in DOMAIN runs : \E outcome \in {"resolved", "rejected"} : RunSettle(r, outcome)
  \/ \E r \in DOMAIN runs : RefreshFinalize(r)
  \/ \E r \in DOMAIN runs : AwaitSettles(r)

RefreshSpec == Init /\ [][RefreshNext]_vars

\* the field and the promise it holds go together
RefreshFieldsAgree == boundariesRefresh <=> refreshPromise # 0

\* C33: when two package.json events arrive back-to-back, the run that
\* awaited the refresh goes on with the boundaries the second discovery
\* found, whichever of the two discoveries completed first.
C33_LatestDiscoveryWins ==
  \A i \in DOMAIN refreshLog :
    LET e == refreshLog[i] IN
      (/\ e.outcome = "resolved"
       /\ e.promise > 1
       /\ discoveries[e.promise - 1] = "resolved")
        => e.boundaries = e.promise

\* C34: a rejected boundaries refresh fails one run only: no two runs are
\* failed by the rejection of the same promise.
C34_RejectedRefreshFailsOneRun ==
  \A i, j \in DOMAIN refreshLog :
    (/\ i < j
     /\ refreshLog[i].outcome = "rejected"
     /\ refreshLog[j].outcome = "rejected")
      => refreshLog[i].promise # refreshLog[j].promise


\* ========================================================================
\* replaceFileRelations when an INSERT throws

\* a source file without a row in `files`
Ghost == "ghost.ts"

\* FK (project, src_file_path) -> files(project, file_path), with PRAGMA
\* foreign_keys = ON: the INSERT of a row whose source file has no file row
\* throws
insertThrows(values) == values.srcFilePath \notin SrcFiles

\* the rels arrays a caller passes: up to two records, in order
OrderedRecords == [srcFilePath : SrcFiles \cup {Absent, Ghost}, dstFilePath : {"c.ts"}]

Batches == {<<>>} \cup {<<a>> : a \in OrderedRecords}
             \cup {<<a, b>> : a, b \in OrderedRecords}

\* for (const rel of rels) insert(...).values(...).run(): each statement is
\* committed as it runs; the first one that throws ends the loop and what
\* ran before it stays
RECURSIVE insertEach(_, _, _, _)
insertEach(table, project, srcFilePath, rels) ==
  IF rels = <<>> THEN [table |-> table, threw |-> FALSE]
  ELSE LET values == insertValues(project, srcFilePath, Head(rels))
       IN IF insertThrows(values)
          THEN [table |-> table, threw |-> TRUE]
          ELSE insertEach(table \cup {tableRow(values, srcFilePath, TRUE)},
                          project, srcFilePath, Tail(rels))

\* replaceFileRelations(project, srcFilePath, rels), statement by statement:
\* the DELETE, then the loop of INSERTs
replaceFileRelationsRun(table, project, srcFilePath, rels) ==
  insertEach(replaceFileRelations(table, project, srcFilePath, {}),
             project, srcFilePath, rels)

\* the stored values of the rows
StoredValues(table) ==
  {[project |-> t.project, srcFilePath |-> t.srcFilePath, dstFilePath |-> t.dstFilePath] :
     t \in table}

\* a replaceFileRelations call, on its own connection (no transaction open)
ReplaceFileRelationsCall(project, srcFilePath, rels) ==
  /\ LET res == replaceFileRelationsRun(relTable, project, srcFilePath, rels)
     IN /\ relTable' = res.table
        /\ lastReplace' = [project |-> project, srcFilePath |-> srcFilePath,
                           rels |-> Range(rels),
                           outgoing |-> getOutgoing(res.table, project, srcFilePath),
                           threw |-> res.threw,
                           stored |-> StoredValues(relTable)]
  /\ UNCHANGED <<client, openCall, tableRows, txDepth, savepoints, txResult>>
  /\ UNCHANGED <<coordVars, ownVars, indexVars, ledgerVars, graphVars, refreshVars,
                 resultVars>>

RelationFaultNext ==
  \E project \in Projects, srcFilePath \in SrcFiles, rels \in Batches :
    ReplaceFileRelationsCall(project, srcFilePath, rels)

RelationFaultSpec == Init /\ [][RelationFaultNext]_vars

\* C35: when an INSERT of replaceFileRelations throws, the table holds what
\* it held before the call: the relations stored for (project, srcFilePath)
\* are still in place and none of the new rows is stored.
C35_ReplaceIsAllOrNothing ==
  (lastReplace.project \in Projects /\ lastReplace.threw)
    => StoredValues(relTable) = lastReplace.stored


\* ========================================================================
\* the coordinator under fairness: an armed debounce timer fires, a run
\* terminates, and the .finally() block of a settled run is executed

\* fullIndex(), incrementalIndex() and source-file events (a tsconfig.json
\* event is a fullIndex() call)
IdleNext ==
  \/ FullIndex
  \/ IncrementalIndex
  \/ HandleWatcherEvent("src")
  \/ TimerFire
  \/ \E r \in DOMAIN runs : \E outcome \in {"resolved", "rejected"} : RunSettle(r, outcome)
  \/ \E r \in DOMAIN runs : Finalize(r)

IdleSpec ==
  /\ Init
  /\ [][IdleNext]_vars
  /\ WF_vars(TimerFire)
  /\ WF_vars(\E r \in DOMAIN runs : \E outcome \in {"resolved", "rejected"} :
               RunSettle(r, outcome))
  /\ WF_vars(\E r \in DOMAIN runs : Finalize(r))

Idle == ~indexingLock /\ pendingEvents = <<>> /\ ~pendingFullIndex

\* C36: under fairness and without shutdown the coordinator comes back to
\* idle again and again: whatever calls and events it was given, eventually
\* the lock is free, the buffer is empty and no full index is queued.
C36_ReturnsToIdle == []<>Idle

\* every call was made and every event delivered, a run held the buffer and a
\* full index was queued meanwhile, and the coordinator is idle
C36_Witness ==
  /\ Idle
  /\ Len(calls) = MaxCalls
  /\ Len(delivered) = MaxEvents
  /\ \E r \in DOMAIN runs : runs[r].by = "fin" /\ runs[r].mode = "full"
  /\ \E r \in DOMAIN runs : runs[r].by = "fin" /\ runs[r].mode = "incr"
  /\ \A r \in DOMAIN runs : runs[r].st = "done"


\* ========================================================================
\* the IndexResult a run returns, with the batch kept in order and with
\* its repetitions

MaxBatch == 2      \* events in one batch

EventTypes == {"create", "change", "delete"}

BatchPaths == {"a.ts", "b.ts"}

FileChangeEvents == [eventType : EventTypes, filePath : BatchPaths]

\* events.filter(e => e.eventType === 'create' || e.eventType === 'change')
\*       .map(e => ({ filePath: e.filePath, ... }))
changedOf(events) ==
  LET kept == SelectSeq(events, LAMBDA e : e.eventType \in {"create", "change"})
  IN [i \in DOMAIN kept |-> kept[i].filePath]

\* events.filter(e => e.eventType === 'delete').map(e => e.filePath)
deletedOf(events) ==
  LET kept == SelectSeq(events, LAMBDA e : e.eventType = "delete")
  IN [i \in DOMAIN kept |-> kept[i].filePath]

\* processChanged: one try per entry of changed; the path of an entry whose
\* processing throws is pushed to failedFiles
failedOf(changed, failing) == SelectSeq(changed, LAMBDA path : path \in failing)

\* a count that leaves the failed files out
indexedFilesWithoutFailed(changed, failedFiles) == Len(changed) - Len(failedFiles)

\* indexedFiles: changed.length
indexedFiles(changed, failedFiles) == Len(changed)

\* the object _doIndex returns
IndexResult(changed, deleted, failedFiles) ==
  [indexedFiles |-> indexedFiles(changed, failedFiles),
   removedFiles |-> Len(deleted),
   changedFiles |-> changed,
   deletedFiles |-> deleted,
   failedFiles |-> failedFiles]

\* _doIndex from the changeset on, as far as the result goes: the full index
\* rejects when a file throws inside the transaction and reports no failed
\* file otherwise; the incremental run reports the files that threw
returned(mode, input, changed, deleted, failing) ==
  LET threw == mode = "full" /\ \E i \in DOMAIN changed : changed[i] \in failing
      failedFiles == IF mode = "full" THEN <<>> ELSE failedOf(changed, failing)
  IN [mode |-> mode, input |-> input,
      outcome |-> IF threw THEN "rejected" ELSE "resolved",
      result |-> IF threw THEN NoResult
                 ELSE IndexResult(changed, deleted, failedFiles)]

\* handleWatcherEvent buffers an event
EventBuffered(e) ==
  /\ Len(batch) < MaxBatch
  /\ batch' = Append(batch, e)
  /\ UNCHANGED lastResult
  /\ UNCHANGED <<coordVars, ownVars, indexVars, ledgerVars, storeVars, graphVars,
                 refreshVars>>

\* _doIndex(events, false) on the drained buffer; the files of `failing`
\* throw when they are processed
EventsRun(failing) ==
  /\ batch # <<>>
  /\ lastResult' = returned("events", batch, changedOf(batch), deletedOf(batch), failing)
  /\ batch' = <<>>
  /\ UNCHANGED <<coordVars, ownVars, indexVars, ledgerVars, storeVars, graphVars,
                 refreshVars>>

\* _doIndex(undefined, useTransaction): detectChanges names each changed and
\* each deleted file once
DetectRun(mode, changedSet, deletedSet, failing) ==
  /\ lastResult' = returned(mode, <<>>, inOrder(changedSet), inOrder(deletedSet), failing)
  /\ UNCHANGED batch
  /\ UNCHANGED <<coordVars, ownVars, indexVars, ledgerVars, storeVars, graphVars,
                 refreshVars>>

ResultNext ==
  \/ \E e \in FileChangeEvents : EventBuffered(e)
  \/ \E failing \in SUBSET Range(changedOf(batch)) : EventsRun(failing)
  \/ \E mode \in {"full", "incremental"} :
       \E changedSet \in SUBSET BatchPaths :
         \E deletedSet \in SUBSET (BatchPaths \ changedSet) :
           \E failing \in SUBSET changedSet :
             DetectRun(mode, changedSet, deletedSet, failing)

ResultSpec == Init /\ [][ResultNext]_vars

\* the number of events of the batch that create or change a file
Creates(events) ==
  Cardinality({i \in DOMAIN events : events[i].eventType \in {"create", "change"}})

Deletes(events) ==
  Cardinality({i \in DOMAIN events : events[i].eventType = "delete"})

\* C37: in every IndexResult indexedFiles is the number of entries of
\* changedFiles, removedFiles the number of entries of deletedFiles, and
\* every entry of failedFiles is an entry of changedFiles; for a batch of
\* events the two counts are the numbers of create/change and of delete
\* events, failed files and repeated paths included.
C37_ResultCounts ==
  lastResult.mode # "none" /\ lastResult.outcome = "resolved" =>
    LET res == lastResult.result IN
      /\ res.indexedFiles = Len(res.changedFiles)
      /\ res.removedFiles = Len(res.deletedFiles)
      /\ \A i \in DOMAIN res.failedFiles :
           \E j \in DOMAIN res.changedFiles : res.failedFiles[i] = res.changedFiles[j]
      /\ lastResult.mode = "events" =>
           /\ res.indexedFiles = Creates(lastResult.input)
           /\ res.removedFiles = Deletes(lastResult.input)

\* a batch named a.ts twice and a.ts failed both times: both entries are
\* counted in indexedFiles
C37_Witness ==
  /\ lastResult.mode = "events"
  /\ lastResult.outcome = "resolved"
  /\ lastResult.result.changedFiles = <<"a.ts", "a.ts">>
  /\ lastResult.result.failedFiles = <<"a.ts", "a.ts">>
  /\ lastResult.result.indexedFiles = 2


\* ========================================================================
\* what an instance leaves behind (checked under LedgerSpec)

\* C38: once close() has resolved, no heartbeat or healthcheck timer is
\* armed, no indexing run of the instance is in progress and the instance
\* holds no watcher_owner row, a promotion in progress included.
C38_ClosedInstanceIsQuiet ==
  closePc = "done" =>
    /\ timer = "null"
    /\ promotePc # "fullIndex"
    /\ ~owned

\* C39: when open() fails after the owner role was acquired, the
\* watcher_owner row is released, no heartbeat timer is armed and no started
\* watcher is left behind.
C39_FailedOwnerOpenReleases ==
  (openPc.threw /\ role = "owner") =>
    /\ ~owned
    /\ timer = "null"
    /\ openPc.at # "fullIndex"

\* C40: after a promotion has failed the instance is not left holding the
\* watcher_owner row without a timer: the healthcheck timer is still armed
\* (the promotion will be tried again) or the heartbeat timer is.
C40_FailedPromotionKeepsATimer ==
  (promotePc = "failed" /\ owned) => timer \in {"healthcheck", "heartbeat"}

====
